---- MODULE Spec2Model ----
(***************************************************************************)
(* Chart builder: the schema extractor (src/charts/data.ts) and the chart  *)
(* specification builder (src/charts/components.tsx, src/charts/spec.ts).  *)
(*                                                                         *)
(* A JavaScript string that the code inspects character by character is a  *)
(* sequence of one-character strings; a string the code only compares or   *)
(* passes along (a log message, a chart type tag, a column name) is a      *)
(* TLA+ string.                                                            *)
(***************************************************************************)
EXTENDS Integers, Sequences, FiniteSets, TLC

VARIABLES
  dataTypeArg,   \* the string handed to getSimplifiedDataType
  simplified,    \* the completion of that call
  engine,        \* the table held by the query engine: its columns and rows
  qtPc,          \* position of the running queryTable call
  qtTableName,   \* queryTable's tableName argument
  describe,      \* settled outcome of the DESCRIBE query
  sampleValues,  \* settled outcome of the sample query
  queries,       \* the queries issued to the engine, in order
  qtPromise,     \* the promise queryTable returned
  formValues,    \* specChart's formValues argument
  tableName,     \* specChart's tableName argument
  data,          \* specChart's data argument (a TableSummary)
  chart,         \* the completion of specChart (components.tsx)
  chartSpec,     \* the completion of specChart (spec.ts)
  logs,          \* what the Logger has written, in order
  uploadedFile,                \* ChartBuilder state: the uploaded File, or null
  datasetSelected,             \* ChartBuilder state: the bundled dataset picked, or null
  displayExpandedManualInput,  \* ChartBuilder state: the manual input area is open
  manualInput,                 \* ChartBuilder state: the text of the manual input
  remoteUrl,                   \* ChartBuilder state: the text of the remote URL field
  fetchPc,         \* position of the running queryFn
  loadCall,        \* the arguments loadTable was called with
  loadPc,          \* position of the running loadTable call
  execs,           \* the statements handed to coordinator.exec, in order
  execsSettled,    \* how many of them the engine has settled
  registeredFiles, \* the file buffers registered with the engine
  engineTables,    \* the names of the tables the engine holds
  fetchResult,     \* the promise queryFn returned
  engineContent,   \* what each table of the engine was loaded from
  queryCache,      \* useQuery: the settled result stored for each query key
  fetches,         \* useQuery: the fetches in flight, by query key
  fetchesStarted,  \* useQuery: how many fetches have been started
  execsOk,         \* which of the statements handed to exec the engine carried out
  chartContainerRef, \* Chart: the container div and its children, or null
  effectChart,       \* Chart: the element the pending cleanup will remove
  renders,           \* Chart: how many times its effect has run
  mounted            \* Chart: the elements appended to the container so far, in order

typesVars == <<dataTypeArg, simplified>>
queryVars == <<engine, qtPc, qtTableName, describe, sampleValues, queries, qtPromise>>
chartVars == <<formValues, tableName, data, chart, chartSpec>>
uiVars ==
  <<uploadedFile, datasetSelected, displayExpandedManualInput, manualInput, remoteUrl>>
cacheVars == <<queryCache, fetches, fetchesStarted, execsOk>>
fetchVars ==
  <<uiVars, fetchPc, loadCall, loadPc, execs, execsSettled, registeredFiles,
    engineTables, fetchResult, engineContent, cacheVars>>
mountVars == <<chartContainerRef, effectChart, renders, mounted>>
vars == <<typesVars, queryVars, chartVars, logs, fetchVars, mountVars>>

----------------------------------------------------------------------------
(* JavaScript values and strings *)

JSNull == [type |-> "null"]
JSUndefined == [type |-> "undefined"]
JSString(s) == [type |-> "string", val |-> s]
JSBoolean(b) == [type |-> "boolean", bool |-> b]

UpperCaseLetters ==
  <<"A", "B", "C", "D", "E", "F", "G", "H", "I", "J", "K", "L", "M",
    "N", "O", "P", "Q", "R", "S", "T", "U", "V", "W", "X", "Y", "Z">>
LowerCaseLetters ==
  <<"a", "b", "c", "d", "e", "f", "g", "h", "i", "j", "k", "l", "m",
    "n", "o", "p", "q", "r", "s", "t", "u", "v", "w", "x", "y", "z">>

toLowerCaseChar(c) ==
  IF \E i \in 1..Len(UpperCaseLetters) : UpperCaseLetters[i] = c
  THEN LowerCaseLetters[CHOOSE i \in 1..Len(UpperCaseLetters) : UpperCaseLetters[i] = c]
  ELSE c

\* String.prototype.toLowerCase
toLowerCase(s) == [i \in 1..Len(s) |-> toLowerCaseChar(s[i])]

\* String.prototype.includes
includes(s, sub) ==
  \E i \in 0..(Len(s) - Len(sub)) : SubSeq(s, i + 1, i + Len(sub)) = sub

\* String(value)
String(v) ==
  CASE v.type = "string" -> v.val
    [] v.type = "null" -> <<"n", "u", "l", "l">>
    [] v.type = "undefined" -> <<"u", "n", "d", "e", "f", "i", "n", "e", "d">>
    [] v.type = "boolean" -> IF v.bool THEN <<"t", "r", "u", "e">> ELSE <<"f", "a", "l", "s", "e">>

\* A function's completion: it returns a value or throws, having logged `l`.
Return(v, l) == [kind |-> "return", value |-> v, logs |-> l]
Throw(e, l) == [kind |-> "throw", value |-> e, logs |-> l]
NotCalled == [kind |-> "pending"]

----------------------------------------------------------------------------
(* Logger (src/utils/logger.ts) *)

LogEntry(level, message) == [level |-> level, message |-> message]

\* Logger.warn, Logger.error: one console line each
Logger_warn(message) == <<LogEntry("warn", message)>>
Logger_error(message) == <<LogEntry("error", message)>>

\* logNever(x): one warning, never a throw
logNever(x) == Logger_warn("Unexpected object")

----------------------------------------------------------------------------
(* Data types (src/charts/data.ts) *)

DuckDBTypes ==
  {
    <<"j", "s", "o", "n">>,  \* "json"
    <<"b", "i", "g", "i", "n", "t">>,  \* "bigint"
    <<"b", "i", "n", "a", "r", "y">>,  \* "binary"
    <<"b", "i", "t">>,  \* "bit"
    <<"b", "i", "t", "s", "t", "r", "i", "n", "g">>,  \* "bitstring"
    <<"b", "l", "o", "b">>,  \* "blob"
    <<"b", "o", "o", "l">>,  \* "bool"
    <<"b", "o", "o", "l", "e", "a", "n">>,  \* "boolean"
    <<"b", "p", "c", "h", "a", "r">>,  \* "bpchar"
    <<"b", "y", "t", "e", "a">>,  \* "bytea"
    <<"c", "h", "a", "r">>,  \* "char"
    <<"d", "a", "t", "e">>,  \* "date"
    <<"d", "a", "t", "e", "t", "i", "m", "e">>,  \* "datetime"
    <<"d", "e", "c">>,  \* "dec"
    <<"d", "e", "c", "i", "m", "a", "l">>,  \* "decimal"
    <<"d", "o", "u", "b", "l", "e">>,  \* "double"
    <<"e", "n", "u", "m">>,  \* "enum"
    <<"f", "l", "o", "a", "t">>,  \* "float"
    <<"f", "l", "o", "a", "t", "4">>,  \* "float4"
    <<"f", "l", "o", "a", "t", "8">>,  \* "float8"
    <<"g", "u", "i", "d">>,  \* "guid"
    <<"h", "u", "g", "e", "i", "n", "t">>,  \* "hugeint"
    <<"i", "n", "t">>,  \* "int"
    <<"i", "n", "t", "1">>,  \* "int1"
    <<"i", "n", "t", "1", "2", "8">>,  \* "int128"
    <<"i", "n", "t", "1", "6">>,  \* "int16"
    <<"i", "n", "t", "2">>,  \* "int2"
    <<"i", "n", "t", "3", "2">>,  \* "int32"
    <<"i", "n", "t", "4">>,  \* "int4"
    <<"i", "n", "t", "6", "4">>,  \* "int64"
    <<"i", "n", "t", "8">>,  \* "int8"
    <<"i", "n", "t", "e", "g", "e", "r">>,  \* "integer"
    <<"i", "n", "t", "e", "g", "r", "a", "l">>,  \* "integral"
    <<"i", "n", "t", "e", "r", "v", "a", "l">>,  \* "interval"
    <<"l", "i", "s", "t">>,  \* "list"
    <<"l", "o", "g", "i", "c", "a", "l">>,  \* "logical"
    <<"l", "o", "n", "g">>,  \* "long"
    <<"m", "a", "p">>,  \* "map"
    <<"n", "u", "l", "l">>,  \* "null"
    <<"n", "u", "m", "e", "r", "i", "c">>,  \* "numeric"
    <<"n", "v", "a", "r", "c", "h", "a", "r">>,  \* "nvarchar"
    <<"o", "i", "d">>,  \* "oid"
    <<"r", "e", "a", "l">>,  \* "real"
    <<"r", "o", "w">>,  \* "row"
    <<"s", "h", "o", "r", "t">>,  \* "short"
    <<"s", "i", "g", "n", "e", "d">>,  \* "signed"
    <<"s", "m", "a", "l", "l", "i", "n", "t">>,  \* "smallint"
    <<"s", "t", "r", "i", "n", "g">>,  \* "string"
    <<"s", "t", "r", "u", "c", "t">>,  \* "struct"
    <<"t", "e", "x", "t">>,  \* "text"
    <<"t", "i", "m", "e">>,  \* "time"
    <<"t", "i", "m", "e", "s", "t", "a", "m", "p">>,  \* "timestamp"
    <<"t", "i", "m", "e", "s", "t", "a", "m", "p", "_", "m", "s">>,  \* "timestamp_ms"
    <<"t", "i", "m", "e", "s", "t", "a", "m", "p", "_", "n", "s">>,  \* "timestamp_ns"
    <<"t", "i", "m", "e", "s", "t", "a", "m", "p", "_", "s">>,  \* "timestamp_s"
    <<"t", "i", "m", "e", "s", "t", "a", "m", "p", "_", "u", "s">>,  \* "timestamp_us"
    <<"t", "i", "m", "e", "s", "t", "a", "m", "p", "t", "z">>,  \* "timestamptz"
    <<"t", "i", "m", "e", "t", "z">>,  \* "timetz"
    <<"t", "i", "n", "y", "i", "n", "t">>,  \* "tinyint"
    <<"u", "b", "i", "g", "i", "n", "t">>,  \* "ubigint"
    <<"u", "h", "u", "g", "e", "i", "n", "t">>,  \* "uhugeint"
    <<"u", "i", "n", "t", "1", "2", "8">>,  \* "uint128"
    <<"u", "i", "n", "t", "1", "6">>,  \* "uint16"
    <<"u", "i", "n", "t", "3", "2">>,  \* "uint32"
    <<"u", "i", "n", "t", "6", "4">>,  \* "uint64"
    <<"u", "i", "n", "t", "8">>,  \* "uint8"
    <<"u", "i", "n", "t", "e", "g", "e", "r">>,  \* "uinteger"
    <<"u", "n", "i", "o", "n">>,  \* "union"
    <<"u", "s", "m", "a", "l", "l", "i", "n", "t">>,  \* "usmallint"
    <<"u", "t", "i", "n", "y", "i", "n", "t">>,  \* "utinyint"
    <<"u", "u", "i", "d">>,  \* "uuid"
    <<"v", "a", "r", "b", "i", "n", "a", "r", "y">>,  \* "varbinary"
    <<"v", "a", "r", "c", "h", "a", "r">>,  \* "varchar"
    <<"v", "a", "r", "i", "n", "t">>   \* "varint"
  }

Unknown == <<"u", "n", "k", "n", "o", "w", "n">>

\* DataType = DuckDBTypes | "unknown"
DataType == DuckDBTypes \cup {Unknown}

SimplifiedDataTypes == {"temporal", "quantitative", "ordinal", "nominal", "unknown"}

\* the case labels of getSimplifiedDataType's switch, arm by arm
NominalCases ==
  {
    <<"s", "t", "r", "i", "n", "g">>,  \* "string"
    <<"v", "a", "r", "c", "h", "a", "r">>,  \* "varchar"
    <<"c", "h", "a", "r">>,  \* "char"
    <<"b", "p", "c", "h", "a", "r">>,  \* "bpchar"
    <<"n", "v", "a", "r", "c", "h", "a", "r">>,  \* "nvarchar"
    <<"u", "u", "i", "d">>,  \* "uuid"
    <<"t", "e", "x", "t">>,  \* "text"
    <<"o", "i", "d">>   \* "oid"
  }
QuantitativeCases ==
  {
    <<"f", "l", "o", "a", "t">>,  \* "float"
    <<"f", "l", "o", "a", "t", "4">>,  \* "float4"
    <<"f", "l", "o", "a", "t", "8">>,  \* "float8"
    <<"d", "o", "u", "b", "l", "e">>,  \* "double"
    <<"d", "e", "c", "i", "m", "a", "l">>,  \* "decimal"
    <<"n", "u", "m", "e", "r", "i", "c">>,  \* "numeric"
    <<"r", "e", "a", "l">>,  \* "real"
    <<"b", "i", "g", "i", "n", "t">>,  \* "bigint"
    <<"i", "n", "t", "1", "2", "8">>,  \* "int128"
    <<"i", "n", "t", "1", "6">>,  \* "int16"
    <<"i", "n", "t", "2">>,  \* "int2"
    <<"i", "n", "t", "3", "2">>,  \* "int32"
    <<"i", "n", "t", "4">>,  \* "int4"
    <<"i", "n", "t", "6", "4">>,  \* "int64"
    <<"i", "n", "t", "8">>,  \* "int8"
    <<"i", "n", "t", "e", "g", "e", "r">>,  \* "integer"
    <<"i", "n", "t", "e", "g", "r", "a", "l">>,  \* "integral"
    <<"i", "n", "t">>,  \* "int"
    <<"i", "n", "t", "1">>,  \* "int1"
    <<"u", "i", "n", "t", "1", "2", "8">>,  \* "uint128"
    <<"u", "i", "n", "t", "1", "6">>,  \* "uint16"
    <<"u", "i", "n", "t", "3", "2">>,  \* "uint32"
    <<"u", "i", "n", "t", "6", "4">>,  \* "uint64"
    <<"u", "i", "n", "t", "8">>,  \* "uint8"
    <<"t", "i", "n", "y", "i", "n", "t">>,  \* "tinyint"
    <<"u", "b", "i", "g", "i", "n", "t">>,  \* "ubigint"
    <<"u", "h", "u", "g", "e", "i", "n", "t">>,  \* "uhugeint"
    <<"u", "i", "n", "t", "e", "g", "e", "r">>,  \* "uinteger"
    <<"u", "s", "m", "a", "l", "l", "i", "n", "t">>,  \* "usmallint"
    <<"u", "t", "i", "n", "y", "i", "n", "t">>,  \* "utinyint"
    <<"v", "a", "r", "i", "n", "t">>,  \* "varint"
    <<"h", "u", "g", "e", "i", "n", "t">>,  \* "hugeint"
    <<"l", "o", "n", "g">>,  \* "long"
    <<"s", "m", "a", "l", "l", "i", "n", "t">>,  \* "smallint"
    <<"s", "i", "g", "n", "e", "d">>,  \* "signed"
    <<"s", "h", "o", "r", "t">>   \* "short"
  }
OrdinalCases ==
  {
    <<"b", "o", "o", "l", "e", "a", "n">>,  \* "boolean"
    <<"b", "o", "o", "l">>,  \* "bool"
    <<"l", "o", "g", "i", "c", "a", "l">>   \* "logical"
  }
TemporalCases ==
  {
    <<"d", "a", "t", "e">>,  \* "date"
    <<"d", "a", "t", "e", "t", "i", "m", "e">>,  \* "datetime"
    <<"t", "i", "m", "e">>,  \* "time"
    <<"t", "i", "m", "e", "s", "t", "a", "m", "p">>,  \* "timestamp"
    <<"t", "i", "m", "e", "s", "t", "a", "m", "p", "_", "m", "s">>,  \* "timestamp_ms"
    <<"t", "i", "m", "e", "s", "t", "a", "m", "p", "_", "n", "s">>,  \* "timestamp_ns"
    <<"t", "i", "m", "e", "s", "t", "a", "m", "p", "_", "s">>,  \* "timestamp_s"
    <<"t", "i", "m", "e", "s", "t", "a", "m", "p", "_", "u", "s">>,  \* "timestamp_us"
    <<"t", "i", "m", "e", "s", "t", "a", "m", "p", "t", "z">>,  \* "timestamptz"
    <<"t", "i", "m", "e", "t", "z">>   \* "timetz"
  }
UnknownCases ==
  {
    <<"j", "s", "o", "n">>,  \* "json"
    <<"b", "i", "n", "a", "r", "y">>,  \* "binary"
    <<"v", "a", "r", "b", "i", "n", "a", "r", "y">>,  \* "varbinary"
    <<"b", "i", "t">>,  \* "bit"
    <<"b", "i", "t", "s", "t", "r", "i", "n", "g">>,  \* "bitstring"
    <<"b", "l", "o", "b">>,  \* "blob"
    <<"b", "y", "t", "e", "a">>,  \* "bytea"
    <<"d", "e", "c">>,  \* "dec"
    <<"g", "u", "i", "d">>,  \* "guid"
    <<"i", "n", "t", "e", "r", "v", "a", "l">>,  \* "interval"
    <<"m", "a", "p">>,  \* "map"
    <<"r", "o", "w">>,  \* "row"
    <<"s", "t", "r", "u", "c", "t">>,  \* "struct"
    <<"u", "n", "k", "n", "o", "w", "n">>,  \* "unknown"
    <<"l", "i", "s", "t">>,  \* "list"
    <<"u", "n", "i", "o", "n">>,  \* "union"
    <<"e", "n", "u", "m">>,  \* "enum"
    <<"n", "u", "l", "l">>   \* "null"
  }

getSimplifiedDataType_defaultThrows(dataType) ==
  CASE dataType \in NominalCases -> Return("nominal", <<>>)
    [] dataType \in QuantitativeCases -> Return("quantitative", <<>>)
    [] dataType \in OrdinalCases -> Return("ordinal", <<>>)
    [] dataType \in TemporalCases -> Return("temporal", <<>>)
    [] dataType \in UnknownCases -> Return("unknown", <<>>)
    [] OTHER -> Throw("Unexpected object", <<>>)

getSimplifiedDataType(dataType) ==
  CASE dataType \in NominalCases -> Return("nominal", <<>>)
    [] dataType \in QuantitativeCases -> Return("quantitative", <<>>)
    [] dataType \in OrdinalCases -> Return("ordinal", <<>>)
    [] dataType \in TemporalCases -> Return("temporal", <<>>)
    [] dataType \in UnknownCases -> Return("unknown", <<>>)
    [] OTHER -> Return("unknown", logNever(dataType))

isNullable_caseSensitive(value) ==
  IF value.type = "string" /\ value.val = <<"n", "u", "l", "l">> THEN TRUE
  ELSE IF value.type = "null" \/ value.type = "undefined" THEN TRUE
  ELSE FALSE

isNullable(value) ==
  IF value.type = "string" /\ toLowerCase(value.val) = <<"n", "u", "l", "l">> THEN TRUE
  ELSE IF value.type = "null" \/ value.type = "undefined" THEN TRUE
  ELSE FALSE

isPrimaryKey_caseSensitive(value) ==
  IF value.type = "string" /\ includes(value.val, <<"p", "r", "i">>) THEN TRUE
  ELSE FALSE

isPrimaryKey(value) ==
  IF value.type = "string" /\ includes(toLowerCase(value.val), <<"p", "r", "i">>) THEN TRUE
  ELSE FALSE

isForeignKey(value) ==
  IF value.type = "string" /\ includes(toLowerCase(value.val), <<"f", "o", "r">>) THEN TRUE
  ELSE FALSE

----------------------------------------------------------------------------
(* The query engine: what DESCRIBE and the sample query can answer *)

MaxCols == 2
MaxRows == 2

SAMPLE_VALUES_SIZE == 5

ColumnNames == << <<"d", "a", "t", "e">>, <<"p", "r", "i", "c", "e">>, <<"s", "y", "m", "b", "o", "l">> >>

\* type strings as the engine reports them
ColumnTypeStrings ==
  { <<"I", "N", "T", "E", "G", "E", "R">>, <<"V", "A", "R", "C", "H", "A", "R">>, <<"B", "O", "O", "L", "E", "A", "N">>, <<"T", "I", "M", "E", "S", "T", "A", "M", "P">>, <<"B", "L", "O", "B">>,
    <<"D", "E", "C", "I", "M", "A", "L", "(", "1", "8", ",", "3", ")">>, <<"D", "o", "u", "b", "l", "e">> }

\* the "null" field of a DESCRIBE row
NullMarkers ==
  { JSString(<<"Y", "E", "S">>), JSString(<<"N", "O">>), JSString(<<"N", "U", "L", "L">>), JSString(<<"n", "u", "l", "l">>),
    JSString(<<"N", "u", "l", "l">>), JSString(<<"n", "u", "l", "l", "a", "b", "l", "e">>), JSString(<<>>),
    JSNull, JSUndefined, JSBoolean(TRUE) }

\* the "key" field of a DESCRIBE row
KeyMarkers ==
  { JSString(<<"P", "R", "I">>), JSString(<<"P", "r", "i">>), JSString(<<"U", "N", "I">>), JSString(<<"F", "O", "R">>),
    JSString(<<"f", "o", "r", "e", "i", "g", "n">>), JSString(<<"P", "R", "I", "F", "O", "R">>), JSString(<<>>),
    JSNull, JSUndefined }

\* the (type, null, key) fields of one row: each value of each field occurs,
\* the other two fields at a common value
MarkerRows ==
  { <<t, JSString(<<"Y", "E", "S">>), JSNull>> : t \in ColumnTypeStrings }
  \cup { <<<<"I", "N", "T", "E", "G", "E", "R">>, n, JSNull>> : n \in NullMarkers }
  \cup { <<<<"I", "N", "T", "E", "G", "E", "R">>, JSString(<<"Y", "E", "S">>), k>> : k \in KeyMarkers }

\* one row of the DESCRIBE result
DescribeRow(name, m) ==
  [ column_name |-> name, column_type |-> JSString(m[1]), null |-> m[2],
    key |-> m[3], default |-> JSNull, extra |-> JSNull ]

Min(a, b) == IF a < b THEN a ELSE b

\* the column lists a loaded table can have: one to MaxCols uniquely named columns
DescribeTables ==
  UNION { { [i \in 1..k |-> DescribeRow(ColumnNames[i], m[i])] : m \in [1..k -> MarkerRows] }
          : k \in 1..Min(MaxCols, Len(ColumnNames)) }

EngineTables == { [columns |-> c, nrows |-> n] : c \in DescribeTables, n \in 0..MaxRows }

\* an Arrow table as the connector resolves it
DescribeTable(rows) == [type |-> "table", rows |-> rows]
SampleTable(names, rowIds) == [type |-> "table", names |-> names, rows |-> rowIds]

\* the value of column c in row r of the loaded table
Cell(r, c) == <<r, c>>

Resolved(v) == [status |-> "resolved", value |-> v]
Rejected == [status |-> "rejected"]
Unsettled == [status |-> "pending"]

\* DESCRIBE "<tableName>": the engine fails, or answers the column list, or
\* the connector hands back something that is no table
DescribeOutcomes(e) ==
  { Rejected, Resolved(JSUndefined), Resolved(DescribeTable(e.columns)) }

\* SELECT * FROM "<tableName>" USING SAMPLE n: up to n of the rows, in an
\* order the engine picks
SampleOutcomes(e, n) ==
  LET names == { e.columns[i].column_name : i \in 1..Len(e.columns) }
      k == Min(e.nrows, n)
      picks == { s \in [1..k -> 1..e.nrows] : \A i, j \in 1..k : i # j => s[i] # s[j] }
  IN { Rejected, Resolved(JSUndefined) } \cup { Resolved(SampleTable(names, s)) : s \in picks }

----------------------------------------------------------------------------
(* queryTable (src/charts/data.ts) *)

\* JavaScript truthiness
truthy(v) ==
  CASE v.type = "string" -> Len(v.val) > 0
    [] v.type = "boolean" -> v.bool
    [] v.type = "object" -> TRUE
    [] OTHER -> FALSE

\* Map: keys in insertion order
EmptyMap == [keys |-> <<>>, entries |-> [k \in {} |-> JSUndefined]]
MapSet_prepend(m, k, v) ==
  [ keys |-> IF k \in DOMAIN m.entries THEN m.keys ELSE <<k>> \o m.keys,
    entries |-> (k :> v) @@ m.entries ]
MapSet(m, k, v) ==
  [ keys |-> IF k \in DOMAIN m.entries THEN m.keys ELSE Append(m.keys, k),
    entries |-> (k :> v) @@ m.entries ]
MapHas(m, k) == k \in DOMAIN m.entries
\* Map.prototype.get: the entry as an object, or undefined
MapGet(m, k) ==
  IF MapHas(m, k) THEN [type |-> "object", obj |-> m.entries[k]] ELSE JSUndefined

\* table.toColumns()
toColumns(t) == [c \in t.names |-> [i \in 1..Len(t.rows) |-> Cell(t.rows[i], c)]]

\* toColumns()[column_name]
ColumnOf(cols, name) == IF name \in DOMAIN cols THEN cols[name] ELSE JSUndefined

ColumnSummary(row, sample) ==
  [ dataType |-> toLowerCase(String(row.column_type)),
    sampleValues |-> ColumnOf(toColumns(sample), row.column_name),
    nullable |-> isNullable(row.null),
    isPrimaryKey |-> isPrimaryKey(row.key),
    isForeignKey |-> isForeignKey(row.key),
    defaultValue |-> row.default,
    comment |-> IF truthy(row.extra) THEN JSString(String(row.extra)) ELSE JSUndefined ]

RECURSIVE reduceColumns(_, _, _)
reduceColumns(rows, sample, acc) ==
  IF rows = <<>> THEN acc
  ELSE reduceColumns(Tail(rows), sample,
                     MapSet(acc, Head(rows).column_name, ColumnSummary(Head(rows), sample)))

TableSummary(name, columns) == [type |-> "object", name |-> name, columns |-> columns]

\* lines 78-96: the reduce over describe.toArray() and the returned summary;
\* a method call on a value that is no table throws a TypeError
buildTableSummary(name, describeValue, sampleValue) ==
  IF describeValue.type # "table" THEN Throw("TypeError", <<>>)
  ELSE IF describeValue.rows # <<>> /\ sampleValue.type # "table" THEN Throw("TypeError", <<>>)
  ELSE Return(TableSummary(name, reduceColumns(describeValue.rows, sampleValue, EmptyMap)), <<>>)

Pending == [state |-> "pending"]
Fulfilled(v) == [state |-> "fulfilled", value |-> v]
RejectedWith(e) == [state |-> "rejected", reason |-> e]

queryTable_rethrow(error) == [promise |-> RejectedWith(error), logs |-> <<>>]

\* lines 97-100: the catch block
queryTable_catch(error) ==
  [promise |-> Fulfilled(JSNull), logs |-> Logger_error("Error querying table")]

DescribeQuery(t) == [sql |-> "DESCRIBE", table |-> t]
SampleQuery_otherTable(t, n) ==
  [sql |-> "SELECT * USING SAMPLE", table |-> <<"o", "t", "h", "e", "r">>, size |-> n]
SampleQuery(t, n) == [sql |-> "SELECT * USING SAMPLE", table |-> t, size |-> n]

TableNames == { <<"P", "o", "k", "e", "m", "o", "n">>, <<"m", "a", "n", "u", "a", "l", "_", "d", "a", "t", "a">> }

\* entry to the first await: the DESCRIBE query is issued
queryTable_enter(t) ==
  /\ qtPc = "idle"
  /\ qtTableName' = t
  /\ queries' = Append(queries, DescribeQuery(t))
  /\ qtPromise' = Pending
  /\ qtPc' = "awaitDescribe"
  /\ UNCHANGED <<engine, describe, sampleValues, logs, typesVars, chartVars, mountVars>>

\* queryTable called on its own
queryTable_call(t) ==
  /\ queryTable_enter(t)
  /\ UNCHANGED fetchVars

\* the DESCRIBE query settles: caught when it rejects, else the sample query is issued
queryTable_afterDescribe(outcome) ==
  /\ qtPc = "awaitDescribe"
  /\ describe' = outcome
  /\ IF outcome.status = "rejected"
     THEN LET c == queryTable_catch("QueryError")
          IN /\ qtPromise' = c.promise
             /\ logs' = logs \o c.logs
             /\ qtPc' = "done"
             /\ UNCHANGED queries
     ELSE /\ queries' = Append(queries, SampleQuery(qtTableName, SAMPLE_VALUES_SIZE))
          /\ qtPc' = "awaitSample"
          /\ UNCHANGED <<qtPromise, logs>>
  /\ UNCHANGED <<engine, qtTableName, sampleValues, typesVars, chartVars, fetchVars, mountVars>>

\* the sample query settles: caught when it rejects or when the reduce throws,
\* else the summary is returned
queryTable_afterSample(outcome) ==
  /\ qtPc = "awaitSample"
  /\ sampleValues' = outcome
  /\ LET built == IF outcome.status = "rejected"
                  THEN Throw("QueryError", <<>>)
                  ELSE buildTableSummary(qtTableName, describe.value, outcome.value)
         c == queryTable_catch(built.value)
     IN IF built.kind = "throw"
        THEN /\ qtPromise' = c.promise
             /\ logs' = logs \o c.logs
        ELSE /\ qtPromise' = Fulfilled(built.value)
             /\ UNCHANGED logs
  /\ qtPc' = "done"
  /\ UNCHANGED <<engine, qtTableName, describe, queries, typesVars, chartVars, fetchVars, mountVars>>

----------------------------------------------------------------------------
(* specChart (src/charts/components.tsx, src/charts/spec.ts) *)

NULL_VALUE == <<>>
COUNT_FIELD == <<"_", "_", "c", "o", "u", "n", "t", "_", "_">>
COUNT_FIELD_LABEL == <<"C", "o", "u", "n", "t", " ", "o", "f", " ", "R", "e", "c", "o", "r", "d", "s">>
CHART_WIDTH == 700
TABLE_HEIGHT == 300
VSPACE == 25

ChartTypes ==
  {"grouped-column", "line", "stacked-column", "100-stacked-column", "bar", "pie"}

defaultChartForm == [chartType |-> "line", x |-> JSNull, y |-> JSNull, colorBy |-> JSNull]

\* vgplot's builders, each the element or directive it was asked for
table(from_, height_, width_) ==
  [el |-> "table", from |-> from_, height |-> height_, width |-> width_]
width(n) == [directive |-> "width", value |-> n]
gridX == [directive |-> "gridX"]
gridY == [directive |-> "gridY"]
axisY(label) == [directive |-> "axisY", label |-> label]
axisX == [directive |-> "axisX"]
from(t) == [from |-> t]
count == [aggregate |-> "count"]
Mark(kind, source, options) ==
  [directive |-> "mark", mark |-> kind, source |-> source, options |-> options]
plot_markFirst(directives) ==
  [el |-> "plot",
   directives |-> <<directives[Len(directives)]>> \o SubSeq(directives, 1, Len(directives) - 1)]
plot(directives) == [el |-> "plot", directives |-> directives]
vspace(n) == [el |-> "vspace", size |-> n]
vconcat(children) == [el |-> "vconcat", children |-> children]

\* formValues.y === COUNT_FIELD
IsCountField(y) == y.type = "string" /\ y.val = COUNT_FIELD

\* lines 85-97
defaultValues(fv) ==
  << width(CHART_WIDTH), gridX, gridY,
     axisY(IF IsCountField(fv.y) THEN JSString(COUNT_FIELD_LABEL) ELSE fv.y),
     axisX >>

markValues_literalY(fv) == [x |-> fv.x, y |-> fv.y, tip |-> TRUE]

\* lines 101-105
markValues(fv) ==
  [x |-> fv.x, y |-> IF IsCountField(fv.y) THEN count ELSE fv.y, tip |-> TRUE]

\* line 110: markValues.fill = "steelblue"
WithFill(mv) == [x |-> mv.x, y |-> mv.y, tip |-> mv.tip, fill |-> "steelblue"]

groupedColumnMark_alwaysBar(xDataType) == "barY"

\* lines 111-112
groupedColumnMark(xDataType) ==
  IF xDataType = "temporal" \/ xDataType = "quantitative" THEN "rectY" ELSE "barY"

\* lines 119-127: an arm of a chart kind that is not implemented
unimplemented(message) == [chart |-> JSNull, logs |-> Logger_warn(message)]

\* lines 107-134: the switch on chartType, then the composition with the table
chartSwitch(fv, tableName_, xDataType, tableDisplay) ==
  LET args == from(tableName_)
      built ==
        CASE fv.chartType = "grouped-column" ->
               [chart |-> plot(defaultValues(fv) \o
                               <<Mark(groupedColumnMark(xDataType), args, WithFill(markValues(fv)))>>),
                logs |-> <<>>]
          [] fv.chartType = "line" ->
               [chart |-> plot(defaultValues(fv) \o <<Mark("lineY", args, markValues(fv))>>),
                logs |-> <<>>]
          [] fv.chartType = "stacked-column" -> unimplemented("Stacked column not implemented")
          [] fv.chartType = "100-stacked-column" ->
               unimplemented("Grouped 100% stacked column not implemented")
          [] fv.chartType = "bar" -> unimplemented("Bar not implemented")
          [] OTHER -> [chart |-> JSNull, logs |-> logNever(fv.chartType)]
  IN Return(vconcat(<<built.chart, vspace(VSPACE), tableDisplay>>), built.logs)

unsetAxes_returnsNull(fv, tableDisplay) ==
  IF ~truthy(fv.x) \/ ~truthy(fv.y) THEN Return(JSNull, <<>>) ELSE NotCalled

\* lines 70-72: the early return when x or y is unset
unsetAxes(fv, tableDisplay) ==
  IF ~truthy(fv.x) \/ ~truthy(fv.y) THEN Return(tableDisplay, <<>>) ELSE NotCalled

missingColumn_silent(xColumn, yColumn, tableDisplay) ==
  IF ~truthy(xColumn) \/ ~truthy(yColumn) THEN Return(tableDisplay, <<>>) ELSE NotCalled

\* lines 78-81: the early return when a column is not found
missingColumn(xColumn, yColumn, tableDisplay) ==
  IF ~truthy(xColumn) \/ ~truthy(yColumn)
  THEN Return(tableDisplay, Logger_error("X or Y column's data is not found"))
  ELSE NotCalled

\* specChart of components.tsx, lines 57-135
specChart(fv, tableName_, data_) ==
  LET tableDisplay == table(tableName_, TABLE_HEIGHT, CHART_WIDTH)
      early == unsetAxes(fv, tableDisplay)
      xColumn == MapGet(data_.columns, fv.x.val)
      yColumn == IF IsCountField(fv.y) THEN JSString(COUNT_FIELD)
                 ELSE MapGet(data_.columns, fv.y.val)
      missing == missingColumn(xColumn, yColumn, tableDisplay)
      xDataType == getSimplifiedDataType(xColumn.obj.dataType)
      switched == chartSwitch(fv, tableName_, xDataType.value, tableDisplay)
  IN IF early.kind # "pending" THEN early
     ELSE IF missing.kind # "pending" THEN missing
     ELSE IF xDataType.kind = "throw" THEN xDataType
     ELSE Return(switched.value, xDataType.logs \o switched.logs)

\* lines 28, 30-34 of spec.ts
defaultValues_spec == <<width(CHART_WIDTH), gridX, gridY>>

\* specChart of spec.ts, lines 20-58
specChart_spec(fv, tableName_) ==
  LET args == from(tableName_)
  IN CASE fv.chartType = "grouped-column" ->
            Return(plot(defaultValues_spec \o <<Mark("barY", args, WithFill(markValues(fv)))>>), <<>>)
       [] fv.chartType = "line" ->
            Return(plot(defaultValues_spec \o <<Mark("lineY", args, markValues(fv))>>), <<>>)
       [] fv.chartType = "stacked-column" ->
            Return(JSNull, Logger_warn("Stacked column not implemented"))
       [] fv.chartType = "100-stacked-column" ->
            Return(JSNull, Logger_warn("Grouped 100% stacked column not implemented"))
       [] fv.chartType = "bar" ->
            Return(JSNull, Logger_warn("Bar not implemented"))
       [] OTHER ->
            Return(JSNull, logNever(fv.chartType))

\* the values a form's x and y can hold: unset, a column name, and for y the count field
AxisValues ==
  {JSNull, JSString(NULL_VALUE)} \cup { JSString(ColumnNames[i]) : i \in 1..Len(ColumnNames) }

ChartForms ==
  [ chartType : ChartTypes, x : AxisValues, y : AxisValues \cup {JSString(COUNT_FIELD)},
    colorBy : {JSNull} ]

\* the summaries queryTable returns for tables whose columns differ in type
TypedTables ==
  { c \in DescribeTables :
      \A i \in 1..Len(c) : c[i].null = JSString(<<"Y", "E", "S">>) /\ c[i].key = JSNull }

SummaryOf(name, c) ==
  buildTableSummary(name, DescribeTable(c),
                    SampleTable({ c[i].column_name : i \in 1..Len(c) }, <<>>)).value

TableSummaries == { SummaryOf(n, c) : n \in TableNames, c \in TypedTables }

specChart_call ==
  /\ chart = NotCalled
  /\ chart' = specChart(formValues, tableName, data)
  /\ logs' = logs \o chart'.logs
  /\ UNCHANGED <<typesVars, queryVars, formValues, tableName, data, chartSpec, fetchVars, mountVars>>

specChart_spec_call ==
  /\ chartSpec = NotCalled
  /\ chartSpec' = specChart_spec(formValues, tableName)
  /\ logs' = logs \o chartSpec'.logs
  /\ UNCHANGED <<typesVars, queryVars, formValues, tableName, data, chart, fetchVars, mountVars>>

----------------------------------------------------------------------------
(* The data source and its table name (src/charts/chart-builder.tsx) *)

\* String.prototype.trim
RECURSIVE trimStart(_)
trimStart(s) == IF s # <<>> /\ Head(s) = " " THEN trimStart(Tail(s)) ELSE s
RECURSIVE trimEnd(_)
trimEnd(s) == IF s # <<>> /\ s[Len(s)] = " " THEN trimEnd(SubSeq(s, 1, Len(s) - 1)) ELSE s
trim(s) == trimEnd(trimStart(s))

\* String.prototype.split: the pieces between the separators
RECURSIVE split(_, _)
split(s, sep) ==
  LET idx == { i \in 1..Len(s) : s[i] = sep }
  IN IF idx = {} THEN <<s>>
     ELSE LET i == CHOOSE j \in idx : \A k \in idx : j <= k
          IN <<SubSeq(s, 1, i - 1)>> \o split(SubSeq(s, i + 1, Len(s)), sep)

\* Array.prototype.join
RECURSIVE join(_, _)
join(pieces, sep) ==
  IF Len(pieces) = 1 THEN pieces[1]
  ELSE pieces[1] \o <<sep>> \o join(Tail(pieces), sep)

\* fileName.split(".")[0].split(" ").join("_")
formatTableName(fileName) == join(split(split(fileName, ".")[1], " "), "_")

DATASETS == { <<"S", "e", "a", "t", "t", "l", "e", " ", "W", "e", "a", "t", "h", "e", "r">>, <<"S", "t", "o", "c", "k", " ", "P", "r", "i", "c", "e", "s">>, <<"P", "o", "k", "e", "m", "o", "n">> }

getDatasetUrl(dataset) ==
  CASE dataset = <<"S", "e", "a", "t", "t", "l", "e", " ", "W", "e", "a", "t", "h", "e", "r">> ->
         <<"h", "t", "t", "p", "s", ":", "/", "/", "r", "a", "w", ".", "g", "i", "t", "h", "u", "b", "u", "s", "e", "r", "c", "o", "n", "t", "e", "n", "t", ".", "c", "o", "m", "/", "u", "w", "d", "a", "t", "a", "/", "m", "o", "s", "a", "i", "c", "/", "9", "0", "1", "e", "0", "d", "a", "3", "0", "2", "b", "b", "3", "a", "0", "0", "9", "d", "4", "6", "3", "c", "9", "5", "9", "f", "0", "9", "d", "d", "b", "1", "7", "0", "4", "9", "e", "c", "c", "0", "/", "d", "a", "t", "a", "/", "s", "e", "a", "t", "t", "l", "e", "-", "w", "e", "a", "t", "h", "e", "r", ".", "c", "s", "v">>
    [] dataset = <<"S", "t", "o", "c", "k", " ", "P", "r", "i", "c", "e", "s">> ->
         <<"h", "t", "t", "p", "s", ":", "/", "/", "r", "a", "w", ".", "g", "i", "t", "h", "u", "b", "u", "s", "e", "r", "c", "o", "n", "t", "e", "n", "t", ".", "c", "o", "m", "/", "u", "w", "d", "a", "t", "a", "/", "m", "o", "s", "a", "i", "c", "/", "9", "0", "1", "e", "0", "d", "a", "3", "0", "2", "b", "b", "3", "a", "0", "0", "9", "d", "4", "6", "3", "c", "9", "5", "9", "f", "0", "9", "d", "d", "b", "1", "7", "0", "4", "9", "e", "c", "c", "0", "/", "d", "a", "t", "a", "/", "s", "t", "o", "c", "k", "s", ".", "c", "s", "v">>
    [] dataset = <<"P", "o", "k", "e", "m", "o", "n">> ->
         <<"h", "t", "t", "p", "s", ":", "/", "/", "g", "i", "s", "t", ".", "g", "i", "t", "h", "u", "b", "u", "s", "e", "r", "c", "o", "n", "t", "e", "n", "t", ".", "c", "o", "m", "/", "a", "r", "m", "g", "i", "l", "l", "e", "s", "/", "1", "9", "4", "b", "c", "f", "f", "3", "5", "0", "0", "1", "e", "7", "e", "b", "5", "3", "a", "2", "a", "8", "b", "4", "4", "1", "e", "8", "b", "2", "c", "6", "/", "r", "a", "w", "/", "9", "2", "2", "0", "0", "b", "c", "0", "a", "6", "7", "3", "d", "5", "c", "e", "2", "1", "1", "0", "a", "a", "a", "d", "4", "5", "4", "4", "e", "d", "6", "c", "4", "0", "1", "0", "f", "6", "8", "7", "/", "p", "o", "k", "e", "m", "o", "n", ".", "c", "s", "v">>

File(name) == [type |-> "object", name |-> name]

\* lines 82-84
hasRemoteUrl == trim(remoteUrl) # <<>>
hasManualInput == displayExpandedManualInput /\ trim(manualInput) # <<>>

\* lines 85-94: the table name of the first active source, or null
ChartBuilder_tableName ==
  IF hasRemoteUrl THEN JSString(formatTableName(remoteUrl))
  ELSE IF hasManualInput THEN JSString(<<"m", "a", "n", "u", "a", "l", "_", "d", "a", "t", "a">>)
  ELSE IF truthy(uploadedFile) THEN JSString(formatTableName(uploadedFile.name))
  ELSE IF truthy(datasetSelected) THEN JSString(formatTableName(datasetSelected.val))
  ELSE JSNull

\* JSON.parse of the manual input: the texts the model types in
JSON_parse(text) ==
  CASE text = <<"[", "]">> -> Return(<<>>, <<>>)
    [] text = <<"[", "{", "}", "]">> -> Return(<<[type |-> "object"]>>, <<>>)
    [] OTHER -> Throw("SyntaxError", <<>>)

queryFn_branch_fileFirst ==
  IF hasRemoteUrl THEN "remote"
  ELSE IF truthy(uploadedFile) THEN "file"
  ELSE IF hasManualInput THEN "manual"
  ELSE IF truthy(datasetSelected) THEN "dataset"
  ELSE "none"

\* lines 118-138: the branch queryFn takes
queryFn_branch ==
  IF hasRemoteUrl THEN "remote"
  ELSE IF hasManualInput THEN "manual"
  ELSE IF truthy(uploadedFile) THEN "file"
  ELSE IF truthy(datasetSelected) THEN "dataset"
  ELSE "none"

\* the data argument the branch hands to loadTable
queryFn_data(branch) ==
  CASE branch = "remote" -> Return([url |-> remoteUrl], <<>>)
    [] branch = "manual" ->
         LET parsed == JSON_parse(manualInput)
         IN IF parsed.kind = "throw" THEN parsed
            ELSE Return([data |-> parsed.value], <<>>)
    [] branch = "file" -> Return([file |-> uploadedFile], <<>>)
    [] branch = "dataset" -> Return([url |-> getDatasetUrl(datasetSelected.val)], <<>>)
    [] OTHER -> NotCalled

----------------------------------------------------------------------------
(* loadTable (src/charts/data.ts) *)

\* the statements of vgplot's loaders
loadObjects(tableId, rows, options) ==
  [load |-> "objects", table |-> tableId, from |-> rows, replace |-> options.replace]
loadCSV(tableId, fileName, options) ==
  [load |-> "csv", table |-> tableId, from |-> fileName, replace |-> options.replace]
loadParquet(tableId, fileName, options) ==
  [load |-> "parquet", table |-> tableId, from |-> fileName, replace |-> options.replace]
loadJSON(tableId, fileName, options) ==
  [load |-> "json", table |-> tableId, from |-> fileName, replace |-> options.replace]

\* `"${tableName}"`
Quoted(name) == <<"\"">> \o name \o <<"\"">>

\* the table an identifier of a statement names
TableNamed(tableId) ==
  IF Len(tableId) >= 2 /\ Head(tableId) = "\"" /\ tableId[Len(tableId)] = "\""
  THEN SubSeq(tableId, 2, Len(tableId) - 1)
  ELSE tableId

\* lines 116-172, to the first await, return or throw: the position reached
\* and the statements handed to coordinator.exec
loadTable_enter(data_, tableName_) ==
  LET options == [replace |-> TRUE]
  IN IF "data" \in DOMAIN data_
     THEN [pc |-> "returned", execs |-> <<loadObjects(tableName_, data_.data, options)>>]
     ELSE LET fileName == IF "file" \in DOMAIN data_ THEN data_.file.name ELSE data_.url
              pieces == split(fileName, ".")
              fileExtension == pieces[Len(pieces)]
              fileNameToLoad == IF "file" \in DOMAIN data_
                                THEN <<"u", "p", "l", "o", "a", "d", "e", "d", "_">> \o data_.file.name
                                ELSE data_.url
          IN IF "file" \in DOMAIN data_
             THEN [pc |-> "awaitGetDuckDB", execs |-> <<>>]
             ELSE CASE fileExtension = <<"c", "s", "v">> ->
                         [pc |-> "returned",
                          execs |-> <<loadCSV(Quoted(tableName_), fileNameToLoad, options)>>]
                    [] fileExtension = <<"p", "a", "r", "q", "u", "e", "t">> ->
                         [pc |-> "returned",
                          execs |-> <<loadParquet(Quoted(tableName_), fileNameToLoad, options)>>]
                    [] fileExtension = <<"j", "s", "o", "n">> ->
                         [pc |-> "returned",
                          execs |-> <<loadJSON(Quoted(tableName_), fileNameToLoad, options)>>]
                    [] OTHER -> [pc |-> "thrown", execs |-> <<>>]

\* line 133: duckdb.getDuckDB() resolved
loadTable_afterGetDuckDB ==
  /\ loadPc = "awaitGetDuckDB"
  /\ loadPc' = "awaitArrayBuffer"
  /\ UNCHANGED <<uiVars, fetchPc, loadCall, execs, execsSettled, registeredFiles,
                 engineTables, engineContent, fetchResult>>
  /\ UNCHANGED <<typesVars, queryVars, chartVars, mountVars, logs, cacheVars>>

\* lines 134-139: file.arrayBuffer() resolved; the buffer is registered and
\* loadTable returns
loadTable_afterArrayBuffer ==
  /\ loadPc = "awaitArrayBuffer"
  /\ registeredFiles' = registeredFiles \cup { <<"u", "p", "l", "o", "a", "d", "e", "d", "_">> \o loadCall.data.file.name }
  /\ loadPc' = "returned"
  /\ UNCHANGED <<uiVars, fetchPc, loadCall, execs, execsSettled, engineTables, engineContent, fetchResult>>
  /\ UNCHANGED <<typesVars, queryVars, chartVars, mountVars, logs, cacheVars>>

\* the engine settles the oldest statement handed to coordinator.exec: the
\* table is created or replaced, or the statement fails
coordinator_execSettles(ok) ==
  /\ execsSettled < Len(execs)
  /\ execsSettled' = execsSettled + 1
  /\ engineTables' = IF ok THEN engineTables \cup { TableNamed(execs[execsSettled + 1].table) }
                     ELSE engineTables
  /\ engineContent' = IF ok THEN (TableNamed(execs[execsSettled + 1].table) :> execs[execsSettled + 1].from)
                                  @@ engineContent
                      ELSE engineContent
  /\ execsOk' = IF ok THEN execsOk \cup {execsSettled + 1} ELSE execsOk
  /\ UNCHANGED <<uiVars, fetchPc, loadCall, loadPc, execs, registeredFiles, fetchResult>>
  /\ UNCHANGED <<typesVars, queryVars, chartVars, mountVars, logs, queryCache, fetches, fetchesStarted>>

----------------------------------------------------------------------------
(* queryFn (src/charts/chart-builder.tsx) *)

\* lines 113-139, to the first await: the query is enabled, the branch is
\* taken and loadTable is called
queryFn_call ==
  /\ fetchPc = "idle"
  /\ truthy(ChartBuilder_tableName)
  /\ LET tableName_ == ChartBuilder_tableName.val
         data_ == queryFn_data(queryFn_branch)
     IN CASE data_.kind = "throw" ->
               /\ fetchPc' = "done"
               /\ fetchResult' = RejectedWith(data_.value)
               /\ UNCHANGED <<loadCall, loadPc, execs>>
          [] data_.kind = "pending" ->
               /\ fetchPc' = "done"
               /\ fetchResult' = Fulfilled(JSNull)
               /\ UNCHANGED <<loadCall, loadPc, execs>>
          [] OTHER ->
               LET entered == loadTable_enter(data_.value, tableName_)
               IN /\ loadCall' = [kind |-> "call", data |-> data_.value, tableName |-> tableName_]
                  /\ loadPc' = entered.pc
                  /\ execs' = execs \o entered.execs
                  /\ fetchPc' = "load"
                  /\ UNCHANGED fetchResult
  /\ UNCHANGED <<uiVars, execsSettled, registeredFiles, engineTables, engineContent>>
  /\ UNCHANGED <<typesVars, queryVars, chartVars, mountVars, logs, cacheVars>>

\* loadTable settled: queryFn rejects when it threw, else calls queryTable
queryFn_afterLoad ==
  /\ fetchPc = "load"
  /\ loadPc \in {"returned", "thrown"}
  /\ IF loadPc = "thrown"
     THEN /\ fetchPc' = "done"
          /\ fetchResult' = RejectedWith("Unsupported file extension")
          /\ UNCHANGED <<queryVars, typesVars, chartVars, mountVars, logs>>
     ELSE /\ fetchPc' = "query"
          /\ queryTable_enter(loadCall.tableName)
          /\ UNCHANGED fetchResult
  /\ UNCHANGED <<uiVars, loadCall, loadPc, execs, execsSettled, registeredFiles, engineTables, engineContent>>
  /\ UNCHANGED cacheVars

\* queryTable settled: queryFn returns what it resolved to
queryFn_return ==
  /\ fetchPc = "query"
  /\ qtPc = "done"
  /\ fetchPc' = "done"
  /\ fetchResult' = qtPromise
  /\ UNCHANGED <<uiVars, loadCall, loadPc, execs, execsSettled, registeredFiles, engineTables, engineContent>>
  /\ UNCHANGED <<typesVars, queryVars, chartVars, mountVars, logs, cacheVars>>

\* what DESCRIBE answers during a fetch: the table must be in the engine
FetchDescribeOutcomes ==
  IF qtTableName \in engineTables THEN DescribeOutcomes(engine) ELSE {Rejected}

----------------------------------------------------------------------------
(* The Chart component (src/charts/chart-builder.tsx) *)

MaxRenders == 3

\* a DOM element: what specChart built, for which props, in which run of the effect
Element(node, tableName_, fv, n) ==
  [type |-> "object", node |-> node, props |-> <<tableName_, fv>>, id |-> n]

\* the container div
Div(children) == [type |-> "object", children |-> children]

\* the cleanup an effect registered, closing over its chart
Cleanup(chart_) == [kind |-> "cleanup", chart |-> chart_]
NoCleanup == [kind |-> "none"]

\* line 479
isXAndYDefined(fv) == truthy(fv.x) /\ truthy(fv.y)

\* Element.remove(): the element leaves its parent
remove(children, el) ==
  LET Others(c) == c # el
  IN SelectSeq(children, Others)

Chart_cleanup_keeps(ref, cleanup) == ref

\* lines 499-501: chart?.remove()
Chart_cleanup(ref, cleanup) ==
  IF cleanup.kind = "cleanup" /\ truthy(cleanup.chart) /\ ref # JSNull
  THEN Div(remove(ref.children, cleanup.chart))
  ELSE ref

\* lines 504-508: the div is rendered when x and y are defined, and kept
\* across renders; otherwise the placeholder is rendered and the ref is null
Chart_commit(ref, fv) ==
  IF isXAndYDefined(fv) THEN (IF ref # JSNull THEN ref ELSE Div(<<>>)) ELSE JSNull

\* lines 481-502: the effect; `built` is what specChart did
Chart_effect(ref, fv, tableName_, built, n) ==
  IF ~truthy(fv.x) \/ ~truthy(fv.y)
  THEN [ref |-> ref, appended |-> <<>>, cleanup |-> NoCleanup, logs |-> <<>>]
  ELSE LET chart_ == IF built.kind = "return" /\ built.value # JSNull
                     THEN Element(built.value, tableName_, fv, n)
                     ELSE JSNull
           logs_ == IF built.kind = "throw" THEN Logger_error("Error rendering chart")
                    ELSE built.logs
       IN [ ref |-> IF ref # JSNull /\ truthy(chart_) THEN Div(<<chart_>>) ELSE ref,
            appended |-> IF ref # JSNull /\ truthy(chart_) THEN <<chart_>> ELSE <<>>,
            cleanup |-> Cleanup(chart_),
            logs |-> logs_ ]

MountForms ==
  [ chartType : {"line", "grouped-column", "bar"},
    x : {JSNull, JSString(NULL_VALUE), JSString(ColumnNames[1])},
    y : {JSNull, JSString(COUNT_FIELD), JSString(ColumnNames[2])},
    colorBy : {JSNull} ]

\* what the call of specChart does: its own completion, or an error raised
\* by the plotting library
BuildOutcomes(fv, tableName_) ==
  { specChart_spec(fv, tableName_), Throw("Error", <<>>) }

\* Chart is rendered with new props: the commit, the cleanup of the previous
\* effect, then the effect
Chart_render(tableName_, fv, built) ==
  /\ renders < MaxRenders
  /\ <<tableName_, fv>> # <<tableName, formValues>>
  /\ LET committed == Chart_commit(IF tableName = NULL_VALUE THEN JSNull ELSE chartContainerRef, fv)
         cleaned == Chart_cleanup(committed, effectChart)
         run == Chart_effect(cleaned, fv, tableName_, built, renders + 1)
     IN /\ chartContainerRef' = run.ref
        /\ effectChart' = run.cleanup
        /\ logs' = logs \o run.logs
        /\ mounted' = mounted \o run.appended
  /\ renders' = renders + 1
  /\ tableName' = tableName_
  /\ formValues' = fv
  /\ UNCHANGED <<data, chart, chartSpec, typesVars, queryVars, fetchVars>>

\* line 459: tableName became null, Chart leaves the page and its cleanup runs
Chart_unmount ==
  /\ tableName # NULL_VALUE
  /\ tableName' = NULL_VALUE
  /\ chartContainerRef' = JSNull
  /\ effectChart' = NoCleanup
  /\ UNCHANGED <<formValues, data, chart, chartSpec, renders, mounted, logs>>
  /\ UNCHANGED <<typesVars, queryVars, fetchVars>>

----------------------------------------------------------------------------
(* The data source controls and the chart form (src/charts/chart-builder.tsx) *)

\* lines 351-361: which controls are on the page
showSelectDataset == ~truthy(uploadedFile) /\ ~displayExpandedManualInput /\ ~hasRemoteUrl
showUploadFile == ~truthy(datasetSelected) /\ ~displayExpandedManualInput /\ ~hasRemoteUrl
showManualInput == ~truthy(datasetSelected) /\ ~truthy(uploadedFile) /\ ~hasRemoteUrl
showExpandedManualInput == showManualInput /\ displayExpandedManualInput
showRemoteDataset_always == TRUE
showRemoteDataset ==
  ~truthy(uploadedFile) /\ ~displayExpandedManualInput /\ ~truthy(datasetSelected)

\* lines 145-147: form.reset()
resetFormValues == defaultChartForm

\* what the handlers leave alone
UIFrame ==
  UNCHANGED <<typesVars, queryVars, tableName, data, chart, chartSpec, mountVars, logs,
              fetchPc, loadCall, loadPc, execs, execsSettled, registeredFiles,
              engineTables, fetchResult, engineContent, cacheVars>>

\* lines 149-153
handleDatasetSelected(value) ==
  /\ showSelectDataset
  /\ formValues' = resetFormValues
  /\ datasetSelected' = JSString(value)
  /\ UNCHANGED <<uploadedFile, displayExpandedManualInput, manualInput, remoteUrl>>
  /\ UIFrame

\* lines 383-385: the clear button of the dataset selector
clearDatasetSelected ==
  /\ showSelectDataset
  /\ truthy(datasetSelected)
  /\ datasetSelected' = JSNull
  /\ UNCHANGED <<formValues, uploadedFile, displayExpandedManualInput, manualInput, remoteUrl>>
  /\ UIFrame

\* lines 155-161: the file dialog closed with a file, or without one
handleFileUpload(file) ==
  /\ showUploadFile
  /\ formValues' = resetFormValues
  /\ uploadedFile' = IF truthy(file) THEN file ELSE uploadedFile
  /\ UNCHANGED <<datasetSelected, displayExpandedManualInput, manualInput, remoteUrl>>
  /\ UIFrame

\* lines 163-169
handleFileClear ==
  /\ showUploadFile
  /\ truthy(uploadedFile)
  /\ formValues' = resetFormValues
  /\ uploadedFile' = JSNull
  /\ UNCHANGED <<datasetSelected, displayExpandedManualInput, manualInput, remoteUrl>>
  /\ UIFrame

\* lines 410-423: the button "Enter data manually"
expandManualInput ==
  /\ showManualInput
  /\ ~displayExpandedManualInput
  /\ displayExpandedManualInput' = ~displayExpandedManualInput
  /\ UNCHANGED <<formValues, uploadedFile, datasetSelected, manualInput, remoteUrl>>
  /\ UIFrame

\* lines 427-433: the text area
setManualInput(text) ==
  /\ showExpandedManualInput
  /\ manualInput' = text
  /\ UNCHANGED <<formValues, uploadedFile, datasetSelected, displayExpandedManualInput, remoteUrl>>
  /\ UIFrame

\* lines 434-439: the clear button of the text area
clearManualInput ==
  /\ showExpandedManualInput
  /\ manualInput' = <<>>
  /\ displayExpandedManualInput' = FALSE
  /\ UNCHANGED <<formValues, uploadedFile, datasetSelected, remoteUrl>>
  /\ UIFrame

\* lines 444-457: the remote URL field
setRemoteUrl(text) ==
  /\ showRemoteDataset
  /\ remoteUrl' = text
  /\ UNCHANGED <<formValues, uploadedFile, datasetSelected, displayExpandedManualInput, manualInput>>
  /\ UIFrame

----------------------------------------------------------------------------
(* useQuery: the schema cache (src/charts/chart-builder.tsx) *)

MaxFetches == 2

NoContent == [t \in {} |-> <<>>]
NoEntries == [k \in {} |-> JSNull]

\* line 112: queryKey, past its constant head
queryKey == <<ChartBuilder_tableName, manualInput, remoteUrl>>

\* line 111: the data useQuery hands to the component
useQuery_data ==
  IF truthy(ChartBuilder_tableName) /\ queryKey \in DOMAIN queryCache
  THEN queryCache[queryKey].data
  ELSE JSUndefined

\* Object.keys: the names of the own enumerable properties of an object; a
\* Map keeps its entries in an internal slot, so it has none
Object_keys(o) == IF "entries" \in DOMAIN o THEN <<>> ELSE o.keys

\* line 172: data?.columns ? Object.keys(data.columns) : []
columns(data_) == IF truthy(data_) THEN Object_keys(data_.columns) ELSE <<>>

\* lines 263-271 and 294-308: the items of the X and Y selectors
xItems(data_) == columns(data_)
yItems(data_) == <<COUNT_FIELD>> \o columns(data_)

\* lines 220-232: the chart types that can be picked
ChartTypeItems == {"grouped-column", "line"}

\* lines 186-189, 459-461: the form is on the page
formRendered == truthy(ChartBuilder_tableName) /\ truthy(useQuery_data)

\* lines 202, 255, 283: field.handleChange
form_handleChange(field, value) ==
  /\ formRendered
  /\ CASE field = "chartType" -> value \in ChartTypeItems
        [] field = "x" -> \E i \in 1..Len(xItems(useQuery_data)) : value = JSString(xItems(useQuery_data)[i])
        [] field = "y" -> \E i \in 1..Len(yItems(useQuery_data)) : value = JSString(yItems(useQuery_data)[i])
  /\ formValues' = [formValues EXCEPT ![field] = value]
  /\ UNCHANGED uiVars
  /\ UIFrame

\* the frame of the steps of a fetch
FetchFrame ==
  UNCHANGED <<typesVars, queryVars, chartVars, mountVars, logs, uiVars,
              fetchPc, loadCall, loadPc, fetchResult>>

\* the description of the table every source holds
SourceColumns ==
  <<DescribeRow(ColumnNames[1], <<<<"I", "N", "T", "E", "G", "E", "R">>, JSString(<<"Y", "E", "S">>), JSNull>>)>>

\* lines 111-143: the key on the page has no entry and no fetch: queryFn
\* starts for it, and runs to the await of loadTable
useQuery_fetch ==
  /\ fetchesStarted < MaxFetches
  /\ truthy(ChartBuilder_tableName)
  /\ queryKey \notin DOMAIN queryCache
  /\ queryKey \notin DOMAIN fetches
  /\ fetchesStarted' = fetchesStarted + 1
  /\ LET tableName_ == ChartBuilder_tableName.val
         data_ == queryFn_data(queryFn_branch)
     IN IF data_.kind # "return"
        THEN /\ queryCache' = (queryKey :> [status |-> "error", data |-> JSUndefined]) @@ queryCache
             /\ UNCHANGED <<fetches, execs>>
        ELSE LET entered == loadTable_enter(data_.value, tableName_)
             IN /\ execs' = execs \o entered.execs
                /\ fetches' = (queryKey :> [pc |-> IF entered.pc = "thrown" THEN "thrown" ELSE "load",
                                            source |-> data_.value,
                                            tableName |-> tableName_,
                                            stmts |-> (Len(execs) + 1)..Len(execs')]) @@ fetches
                /\ UNCHANGED queryCache
  /\ UNCHANGED <<execsSettled, engineTables, engineContent, execsOk, registeredFiles>>
  /\ FetchFrame

\* the fetches in flight other than the one of key
Without(key) == [k \in DOMAIN fetches \ {key} |-> fetches[k]]

\* loadTable settled for the fetch of key (for a file, after its buffer was
\* registered): the fetch fails when it threw, else queryTable is called
useQuery_afterLoad(key) ==
  /\ key \in DOMAIN fetches
  /\ fetches[key].pc \in {"load", "thrown"}
  /\ IF fetches[key].pc = "thrown"
     THEN /\ queryCache' = (key :> [status |-> "error", data |-> JSUndefined]) @@ queryCache
          /\ fetches' = Without(key)
     ELSE /\ fetches' = [fetches EXCEPT ![key].pc = "query"]
          /\ UNCHANGED queryCache
  /\ registeredFiles' =
       IF fetches[key].pc = "load" /\ "file" \in DOMAIN fetches[key].source
       THEN registeredFiles \cup { <<"u", "p", "l", "o", "a", "d", "e", "d", "_">> \o fetches[key].source.file.name }
       ELSE registeredFiles
  /\ UNCHANGED <<fetchesStarted, execs, execsSettled, engineTables, engineContent, execsOk>>
  /\ FetchFrame

\* queryTable settled for the fetch of key: its queries read the table the
\* engine holds under the name, and the result is stored for the key
useQuery_afterQuery(key) ==
  /\ key \in DOMAIN fetches
  /\ fetches[key].pc = "query"
  /\ LET name == fetches[key].tableName
         result == IF name \in DOMAIN engineContent
                   THEN [ status |-> "success",
                          data |-> SummaryOf(name, SourceColumns),
                          source |-> fetches[key].source,
                          loaded |-> (fetches[key].stmts \subseteq execsOk),
                          content |-> engineContent[name] ]
                   ELSE [status |-> "success", data |-> JSNull]
     IN queryCache' = (key :> result) @@ queryCache
  /\ fetches' = Without(key)
  /\ UNCHANGED <<fetchesStarted, execs, execsSettled, engineTables, engineContent, execsOk,
                 registeredFiles>>
  /\ FetchFrame

----------------------------------------------------------------------------
(* Specifications *)

\* strings handed to getSimplifiedDataType: every DataType, and strings outside it
UnlistedTypeStrings ==
  { <<"d", "e", "c", "i", "m", "a", "l", "(", "1", "8", ",", "3", ")">>, <<"t", "o", "t", "a", "l", "l", "y", "_", "b", "o", "g", "u", "s", "_", "t", "y", "p", "e">>, <<"I", "N", "T", "E", "G", "E", "R">>, <<"v", "a", "r", "c", "h", "a", "r", "(", "2", "5", "5", ")">>, <<>> }

DataTypeArgs == DataType \cup UnlistedTypeStrings \cup { toLowerCase(t) : t \in ColumnTypeStrings }

getSimplifiedDataType_call ==
  /\ simplified = NotCalled
  /\ simplified' = getSimplifiedDataType(dataTypeArg)
  /\ logs' = logs \o simplified'.logs
  /\ UNCHANGED <<dataTypeArg, queryVars, chartVars, fetchVars, mountVars>>

NoEngine == [columns |-> <<>>, nrows |-> 0]
NoSummary == TableSummary(NULL_VALUE, EmptyMap)

IdleTypes == dataTypeArg = NULL_VALUE /\ simplified = NotCalled

IdleQuery ==
  /\ engine = NoEngine
  /\ qtPc = "idle"
  /\ qtTableName = NULL_VALUE
  /\ describe = Unsettled
  /\ sampleValues = Unsettled
  /\ queries = <<>>
  /\ qtPromise = Pending

IdleChart ==
  /\ formValues = defaultChartForm
  /\ tableName = NULL_VALUE
  /\ data = NoSummary
  /\ chart = NotCalled
  /\ chartSpec = NotCalled

\* no data source is active and nothing has been fetched
IdleFetch ==
  /\ uploadedFile = JSNull
  /\ datasetSelected = JSNull
  /\ displayExpandedManualInput = FALSE
  /\ manualInput = <<>>
  /\ remoteUrl = <<>>
  /\ fetchPc = "idle"
  /\ loadCall = NotCalled
  /\ loadPc = "idle"
  /\ execs = <<>>
  /\ execsSettled = 0
  /\ registeredFiles = {}
  /\ engineTables = {}
  /\ engineContent = NoContent
  /\ queryCache = NoEntries
  /\ fetches = NoEntries
  /\ fetchesStarted = 0
  /\ execsOk = {}
  /\ fetchResult = Pending

\* Chart is not on the page
IdleMount ==
  /\ chartContainerRef = JSNull
  /\ effectChart = NoCleanup
  /\ renders = 0
  /\ mounted = <<>>

InitTypes ==
  /\ dataTypeArg \in DataTypeArgs
  /\ simplified = NotCalled
  /\ IdleQuery
  /\ IdleChart
  /\ IdleFetch
  /\ IdleMount
  /\ logs = <<>>

NextTypes == getSimplifiedDataType_call

SpecTypes == InitTypes /\ [][NextTypes]_vars

InitQuery ==
  /\ engine \in EngineTables
  /\ qtPc = "idle"
  /\ qtTableName = NULL_VALUE
  /\ describe = Unsettled
  /\ sampleValues = Unsettled
  /\ queries = <<>>
  /\ qtPromise = Pending
  /\ IdleTypes
  /\ IdleChart
  /\ IdleFetch
  /\ IdleMount
  /\ logs = <<>>

NextQuery ==
  \/ \E t \in TableNames : queryTable_call(t)
  \/ \E o \in DescribeOutcomes(engine) : queryTable_afterDescribe(o)
  \/ \E o \in SampleOutcomes(engine, SAMPLE_VALUES_SIZE) : queryTable_afterSample(o)

SpecQuery == InitQuery /\ [][NextQuery]_vars

\* tables whose columns come in every order of their names
OrderedTables ==
  UNION { { [i \in 1..k |-> DescribeRow(ColumnNames[p[i]], <<<<"I", "N", "T", "E", "G", "E", "R">>, JSString(<<"Y", "E", "S">>), JSNull>>)] :
              p \in { q \in [1..k -> 1..Len(ColumnNames)] :
                        \A i, j \in 1..k : i # j => q[i] # q[j] } }
          : k \in 1..Min(MaxCols, Len(ColumnNames)) }

InitOrder ==
  /\ engine \in { [columns |-> c, nrows |-> n] : c \in OrderedTables, n \in 0..MaxRows }
  /\ qtPc = "idle"
  /\ qtTableName = NULL_VALUE
  /\ describe = Unsettled
  /\ sampleValues = Unsettled
  /\ queries = <<>>
  /\ qtPromise = Pending
  /\ IdleTypes
  /\ IdleChart
  /\ IdleFetch
  /\ IdleMount
  /\ logs = <<>>

SpecOrder == InitOrder /\ [][NextQuery]_vars

InitChart ==
  /\ formValues \in ChartForms
  /\ data \in TableSummaries
  /\ tableName = data.name
  /\ chart = NotCalled
  /\ chartSpec = NotCalled
  /\ IdleTypes
  /\ IdleQuery
  /\ IdleFetch
  /\ IdleMount
  /\ logs = <<>>

NextChart ==
  \/ specChart_call
  \/ specChart_spec_call

SpecChart == InitChart /\ [][NextChart]_vars


\* the texts of the remote URL field
RemoteUrls ==
  { <<>>, <<" ">>, <<"h", "t", "t", "p", ":", "/", "/", "h", "/", "m", "y", " ", "d", "a", "t", "a", ".", "c", "s", "v">>, <<"h", "t", "t", "p", ":", "/", "/", "h", "/", "t", ".", "p", "a", "r", "q", "u", "e", "t">>, <<"h", "t", "t", "p", ":", "/", "/", "h", "/", "r", "o", "w", "s", ".", "j", "s", "o", "n">>,
    <<"h", "t", "t", "p", ":", "/", "/", "h", "/", "n", "o", "t", "e", "s", ".", "t", "x", "t">>, <<".", "c", "s", "v">> }

\* the texts of the manual input
ManualInputs == { <<>>, <<" ", " ">>, <<"[", "]">>, <<"[", "{", "}", "]">>, <<"[", "{">> }

UploadedFiles ==
  { JSNull, File(<<"m", "y", " ", "d", "a", "t", "a", ".", "c", "s", "v">>), File(<<"t", ".", "p", "a", "r", "q", "u", "e", "t">>), File(<<"r", "o", "w", "s", ".", "j", "s", "o", "n">>), File(<<"n", "o", "t", "e", "s", ".", "t", "x", "t">>) }

DatasetsSelected == {JSNull} \cup { JSString(d) : d \in DATASETS }

\* the content of the table the source holds
FetchedTables ==
  { e \in EngineTables :
      /\ Len(e.columns) = 1
      /\ e.nrows = 1
      /\ e.columns[1].null = JSString(<<"Y", "E", "S">>)
      /\ e.columns[1].key = JSNull
      /\ e.columns[1].column_type = JSString(<<"I", "N", "T", "E", "G", "E", "R">>) }

InitFetch ==
  /\ uploadedFile \in UploadedFiles
  /\ datasetSelected \in DatasetsSelected
  /\ displayExpandedManualInput \in BOOLEAN
  /\ manualInput \in ManualInputs
  /\ remoteUrl \in RemoteUrls
  /\ fetchPc = "idle"
  /\ loadCall = NotCalled
  /\ loadPc = "idle"
  /\ execs = <<>>
  /\ execsSettled = 0
  /\ registeredFiles = {}
  /\ engineTables = {}
  /\ engineContent = NoContent
  /\ queryCache = NoEntries
  /\ fetches = NoEntries
  /\ fetchesStarted = 0
  /\ execsOk = {}
  /\ fetchResult = Pending
  /\ engine \in FetchedTables
  /\ qtPc = "idle"
  /\ qtTableName = NULL_VALUE
  /\ describe = Unsettled
  /\ sampleValues = Unsettled
  /\ queries = <<>>
  /\ qtPromise = Pending
  /\ IdleTypes
  /\ IdleChart
  /\ IdleMount
  /\ logs = <<>>

NextFetch ==
  \/ queryFn_call
  \/ loadTable_afterGetDuckDB
  \/ loadTable_afterArrayBuffer
  \/ \E ok \in BOOLEAN : coordinator_execSettles(ok)
  \/ queryFn_afterLoad
  \/ \E o \in FetchDescribeOutcomes : queryTable_afterDescribe(o)
  \/ \E o \in SampleOutcomes(engine, SAMPLE_VALUES_SIZE) : queryTable_afterSample(o)
  \/ queryFn_return

SpecFetch == InitFetch /\ [][NextFetch]_vars

InitMount ==
  /\ formValues = defaultChartForm
  /\ tableName = NULL_VALUE
  /\ data = NoSummary
  /\ chart = NotCalled
  /\ chartSpec = NotCalled
  /\ IdleMount
  /\ IdleTypes
  /\ IdleQuery
  /\ IdleFetch
  /\ logs = <<>>

NextMount ==
  \/ \E t \in TableNames, fv \in MountForms :
        \E built \in BuildOutcomes(fv, t) : Chart_render(t, fv, built)
  \/ Chart_unmount

SpecMount == InitMount /\ [][NextMount]_vars

\* the texts typed, the files picked
UIRemoteUrls == { <<>>, <<"h", ".", "i", "o", "/", "a", ".", "c", "s", "v">>, <<"h", ".", "i", "o", "/", "b", ".", "c", "s", "v">> }
UIManualInputs == { <<>>, <<"[", "{", "}", "]">> }
UIFiles == { JSUndefined, File(<<"P", "o", "k", "e", "m", "o", "n", ".", "c", "s", "v">>) }
UIDatasets == { <<"P", "o", "k", "e", "m", "o", "n">> }

InitUI ==
  /\ IdleFetch
  /\ IdleTypes
  /\ IdleQuery
  /\ IdleChart
  /\ IdleMount
  /\ logs = <<>>

NextUI ==
  \/ \E value \in UIDatasets : handleDatasetSelected(value)
  \/ clearDatasetSelected
  \/ \E file \in UIFiles : handleFileUpload(file)
  \/ handleFileClear
  \/ expandManualInput
  \/ \E text \in UIManualInputs : setManualInput(text)
  \/ clearManualInput
  \/ \E text \in UIRemoteUrls : setRemoteUrl(text)
  \/ \E value \in ChartTypeItems : form_handleChange("chartType", value)
  \/ \E value \in AxisValues : form_handleChange("x", value)
  \/ \E value \in AxisValues \cup {JSString(COUNT_FIELD)} : form_handleChange("y", value)
  \/ useQuery_fetch
  \/ \E key \in DOMAIN fetches : useQuery_afterLoad(key)
  \/ \E key \in DOMAIN fetches : useQuery_afterQuery(key)
  \/ \E ok \in BOOLEAN : coordinator_execSettles(ok)

SpecUI == InitUI /\ [][NextUI]_vars

----------------------------------------------------------------------------
(* Properties of queryTable *)

\* a query raised
QueryRaised == describe = Rejected \/ sampleValues = Rejected

\* a query resolved to something that is no table
ResultMalformed ==
  \/ describe.status = "resolved" /\ describe.value.type # "table"
  \/ sampleValues.status = "resolved" /\ sampleValues.value.type # "table"

\* queryTable returned a TableSummary
Succeeded ==
  /\ qtPc = "done"
  /\ qtPromise.state = "fulfilled"
  /\ qtPromise.value.type = "object"

DescribedRows == describe.value.rows
StoredColumn(row) == qtPromise.value.columns.entries[row.column_name]

\* C1: queryTable never propagates an exception; when the DESCRIBE query or
\* the sample query raises, or a result is malformed, it logs exactly one
\* error through Logger.error and resolves to null.
C1_QueryTableNeverPropagates ==
  /\ qtPromise.state # "rejected"
  /\ (qtPc = "done" /\ (QueryRaised \/ ResultMalformed)) =>
       /\ qtPromise = Fulfilled(JSNull)
       /\ Len(logs) = 1
       /\ logs[1].level = "error"

\* C1 witness: the sample query raised after the DESCRIBE query had resolved
C1_Witness ==
  /\ qtPc = "done"
  /\ describe.status = "resolved"
  /\ sampleValues = Rejected
  /\ qtPromise = Fulfilled(JSNull)

\* C2: the dataType stored for a described column is the lower-cased type
\* string when that is an enumerated type name and "unknown" otherwise, so it
\* is always a member of DataType.
C2_StoredDataTypeInEnumeration ==
  Succeeded =>
    \A i \in 1..Len(DescribedRows) :
      LET row == DescribedRows[i]
          lowered == toLowerCase(row.column_type.val)
          stored == StoredColumn(row).dataType
      IN /\ stored \in DataType
         /\ lowered \in DuckDBTypes => stored = lowered
         /\ lowered \notin DuckDBTypes => stored = Unknown

\* two characters that are equal or the upper and lower case of one letter
SameLetter(a, b) ==
  \/ a = b
  \/ \E j \in 1..Len(UpperCaseLetters) :
       {a, b} = {UpperCaseLetters[j], LowerCaseLetters[j]}

EqualsIgnoringCase(s, t) ==
  /\ Len(s) = Len(t)
  /\ \A i \in 1..Len(s) : SameLetter(s[i], t[i])

ContainsIgnoringCase(s, sub) ==
  \E i \in 0..(Len(s) - Len(sub)) :
    EqualsIgnoringCase(SubSeq(s, i + 1, i + Len(sub)), sub)

\* C4: nullable is true exactly when the nullability marker is a string
\* equal to "null" ignoring case, or is null, or is undefined.
C4_NullableInference ==
  Succeeded =>
    \A i \in 1..Len(DescribedRows) :
      LET row == DescribedRows[i]
      IN StoredColumn(row).nullable =
           ( \/ row.null.type = "string" /\ EqualsIgnoringCase(row.null.val, <<"n", "u", "l", "l">>)
             \/ row.null = JSNull
             \/ row.null = JSUndefined )

\* C4 witness: a column whose marker is the upper-case "NULL" was summarised as nullable
C4_Witness ==
  /\ Succeeded
  /\ \E i \in 1..Len(DescribedRows) :
       /\ DescribedRows[i].null = JSString(<<"N", "U", "L", "L">>)
       /\ StoredColumn(DescribedRows[i]).nullable

\* C5 as stated: a key marker string containing "pri" gives isPrimaryKey and
\* not isForeignKey, one containing "for" gives the inverse, one containing
\* neither gives both false.
C5_KeyRolesExclusive ==
  Succeeded =>
    \A i \in 1..Len(DescribedRows) :
      LET row == DescribedRows[i]
          stored == StoredColumn(row)
      IN row.key.type = "string" =>
           /\ ContainsIgnoringCase(row.key.val, <<"p", "r", "i">>) =>
                stored.isPrimaryKey /\ ~stored.isForeignKey
           /\ ContainsIgnoringCase(row.key.val, <<"f", "o", "r">>) =>
                stored.isForeignKey /\ ~stored.isPrimaryKey
           /\ ( ~ContainsIgnoringCase(row.key.val, <<"p", "r", "i">>)
                /\ ~ContainsIgnoringCase(row.key.val, <<"f", "o", "r">>) ) =>
                ~stored.isPrimaryKey /\ ~stored.isForeignKey

\* C5 amended: the two flags are inferred independently; isPrimaryKey is true
\* exactly when the key marker string contains "pri" in any case, and
\* isForeignKey exactly when it contains "for" in any case.
C5_KeyRolesIndependent ==
  Succeeded =>
    \A i \in 1..Len(DescribedRows) :
      LET row == DescribedRows[i]
          stored == StoredColumn(row)
      IN row.key.type = "string" =>
           /\ stored.isPrimaryKey = ContainsIgnoringCase(row.key.val, <<"p", "r", "i">>)
           /\ stored.isForeignKey = ContainsIgnoringCase(row.key.val, <<"f", "o", "r">>)

\* C5 witness: a marker holding both substrings was summarised with both flags set
C5_Witness ==
  /\ Succeeded
  /\ \E i \in 1..Len(DescribedRows) :
       /\ DescribedRows[i].key = JSString(<<"P", "R", "I", "F", "O", "R">>)
       /\ StoredColumn(DescribedRows[i]).isPrimaryKey
       /\ StoredColumn(DescribedRows[i]).isForeignKey

----------------------------------------------------------------------------
(* Properties of getSimplifiedDataType *)

\* C3: getSimplifiedDataType is total: for every string it returns one of the
\* five classes and never raises; integer is quantitative, varchar nominal,
\* boolean ordinal, timestamp temporal, blob unknown, and a string outside
\* the enumeration unknown.
C3_SimplifiedDataTypeTotal ==
  simplified # NotCalled =>
    /\ simplified.kind = "return"
    /\ simplified.value \in SimplifiedDataTypes
    /\ dataTypeArg = <<"i", "n", "t", "e", "g", "e", "r">> => simplified.value = "quantitative"
    /\ dataTypeArg = <<"v", "a", "r", "c", "h", "a", "r">> => simplified.value = "nominal"
    /\ dataTypeArg = <<"b", "o", "o", "l", "e", "a", "n">> => simplified.value = "ordinal"
    /\ dataTypeArg = <<"t", "i", "m", "e", "s", "t", "a", "m", "p">> => simplified.value = "temporal"
    /\ dataTypeArg = <<"b", "l", "o", "b">> => simplified.value = "unknown"
    /\ dataTypeArg \notin DataType => simplified.value = "unknown"

\* C3 witness: a string outside the enumeration was classified
C3_Witness ==
  /\ simplified # NotCalled
  /\ dataTypeArg = <<"d", "e", "c", "i", "m", "a", "l", "(", "1", "8", ",", "3", ")">>
  /\ simplified.value = "unknown"

----------------------------------------------------------------------------
(* Properties of specChart *)

Called == chart # NotCalled

\* x or y is null or the empty string
Unset(v) == v = JSNull \/ v = JSString(NULL_VALUE)

\* the axis value names a column of the summary
NamesColumn(v) == v.type = "string" /\ v.val # NULL_VALUE /\ v.val \in DOMAIN data.columns.entries

\* the axis value is a name, and no column of the summary has it
NamesAbsentColumn(v) ==
  v.type = "string" /\ v.val # NULL_VALUE /\ v.val \notin DOMAIN data.columns.entries

\* x and y both resolve: x to a column, y to a column or to the count field
Resolvable ==
  /\ NamesColumn(formValues.x)
  /\ formValues.y = JSString(COUNT_FIELD) \/ NamesColumn(formValues.y)

TablePreview == table(tableName, TABLE_HEIGHT, CHART_WIDTH)

IsPlot(e) == "el" \in DOMAIN e /\ e.el = "plot"

\* the plot elements of a returned element
PlotsIn(e) ==
  IF IsPlot(e) THEN {e}
  ELSE IF "children" \in DOMAIN e
       THEN { e.children[i] : i \in { j \in 1..Len(e.children) : IsPlot(e.children[j]) } }
       ELSE {}

\* the mark directive and the y-axis directive of a plot
MarkOf(p) == p.directives[Len(p.directives)]
AxisYOf(p) == CHOOSE d \in { p.directives[i] : i \in 1..Len(p.directives) } : d.directive = "axisY"

\* C6: when x or y is unset (null or empty), specChart returns only the
\* table-preview element, builds no plot and emits no log, for every
\* chartType and TableSummary.
C6_UnsetAxesFallback ==
  (Called /\ (Unset(formValues.x) \/ Unset(formValues.y))) =>
    /\ chart.kind = "return"
    /\ chart.value = TablePreview
    /\ PlotsIn(chart.value) = {}
    /\ chart.logs = <<>>

\* C6 witness: specChart ran on a form whose x is unset and whose y is set
C6_Witness ==
  /\ Called
  /\ formValues.x = JSNull
  /\ formValues.y = JSString(COUNT_FIELD)
  /\ formValues.chartType = "grouped-column"
  /\ chart.value = TablePreview

\* C7 as stated: when x names a column absent from the summary, or y names
\* neither the count field nor a column, specChart logs an error and returns
\* the table preview alone, without raising.
C7_StaleColumnLogsError ==
  (Called /\ ( \/ NamesAbsentColumn(formValues.x)
               \/ (formValues.y # JSString(COUNT_FIELD) /\ NamesAbsentColumn(formValues.y)) )) =>
    /\ chart.kind = "return"
    /\ chart.value = TablePreview
    /\ Len(chart.logs) = 1
    /\ chart.logs[1].level = "error"

\* C7 amended: when x and y are both set, and x names a column absent from
\* the summary or y names neither the count field nor a column, specChart
\* logs one error and returns the table preview alone, without raising.
C7_StaleColumnFallback ==
  (Called /\ ~Unset(formValues.x) /\ ~Unset(formValues.y)
          /\ ( \/ NamesAbsentColumn(formValues.x)
               \/ (formValues.y # JSString(COUNT_FIELD) /\ NamesAbsentColumn(formValues.y)) )) =>
    /\ chart.kind = "return"
    /\ chart.value = TablePreview
    /\ PlotsIn(chart.value) = {}
    /\ Len(chart.logs) = 1
    /\ chart.logs[1].level = "error"

\* C7 witness: specChart ran with y resolving and x naming an absent column
C7_Witness ==
  /\ Called
  /\ NamesAbsentColumn(formValues.x)
  /\ NamesColumn(formValues.y)
  /\ chart.value = TablePreview
  /\ Len(chart.logs) = 1

\* the simplified type of the column x names
XClass == getSimplifiedDataType(data.columns.entries[formValues.x.val].dataType).value

\* C8: with resolvable x and y, grouped-column builds the rectY mark exactly
\* when the x column is temporal or quantitative and the barY mark for every
\* other class; line builds the lineY mark whatever the class.
C8_MarkSelection ==
  (Called /\ Resolvable) =>
    /\ formValues.chartType = "grouped-column" =>
         /\ Cardinality(PlotsIn(chart.value)) = 1
         /\ \A p \in PlotsIn(chart.value) :
              /\ MarkOf(p).directive = "mark"
              /\ XClass \in {"temporal", "quantitative"} => MarkOf(p).mark = "rectY"
              /\ XClass \in {"nominal", "ordinal", "unknown"} => MarkOf(p).mark = "barY"
    /\ formValues.chartType = "line" =>
         /\ Cardinality(PlotsIn(chart.value)) = 1
         /\ \A p \in PlotsIn(chart.value) :
              MarkOf(p).directive = "mark" /\ MarkOf(p).mark = "lineY"

\* C8 witness: a grouped-column chart over a temporal x column was built with rectY
C8_Witness ==
  /\ Called
  /\ Resolvable
  /\ formValues.chartType = "grouped-column"
  /\ XClass = "temporal"
  /\ \E p \in PlotsIn(chart.value) : MarkOf(p).mark = "rectY"

\* C9: when y is the count field and x resolves, the y-axis label is "Count
\* of Records" and the mark's y channel is the row-count aggregate; when y is
\* a column name, the label and the y channel are both that column name.
C9_CountSentinel ==
  (Called /\ Resolvable) =>
    \A p \in PlotsIn(chart.value) :
      /\ formValues.y = JSString(COUNT_FIELD) =>
           /\ AxisYOf(p).label = JSString(COUNT_FIELD_LABEL)
           /\ MarkOf(p).options.y = count
      /\ NamesColumn(formValues.y) =>
           /\ AxisYOf(p).label = formValues.y
           /\ MarkOf(p).options.y = formValues.y

\* C9 witness: a plot was built with the count field on y
C9_Witness ==
  /\ Called
  /\ Resolvable
  /\ formValues.y = JSString(COUNT_FIELD)
  /\ \E p \in PlotsIn(chart.value) : MarkOf(p).options.y = count

Unimplemented == {"stacked-column", "100-stacked-column", "bar"}

\* C10: for a chart kind that is not implemented and resolvable x and y,
\* specChart returns, builds no plot and emits exactly one warning; so does
\* the specChart of spec.ts.
C10_UnimplementedNonFatal ==
  /\ (Called /\ Resolvable /\ formValues.chartType \in Unimplemented) =>
       /\ chart.kind = "return"
       /\ PlotsIn(chart.value) = {}
       /\ Len(chart.logs) = 1
       /\ chart.logs[1].level = "warn"
  /\ (chartSpec # NotCalled /\ Resolvable /\ formValues.chartType \in Unimplemented) =>
       /\ chartSpec.kind = "return"
       /\ PlotsIn(chartSpec.value) = {}
       /\ Len(chartSpec.logs) = 1
       /\ chartSpec.logs[1].level = "warn"

\* C10 witness: both revisions ran on a resolvable form of kind bar
C10_Witness ==
  /\ Called
  /\ chartSpec # NotCalled
  /\ Resolvable
  /\ formValues.chartType = "bar"
  /\ Len(chart.logs) = 1

----------------------------------------------------------------------------
(* Properties of specChart, continued *)

\* the element is, or has as a child, the table preview
ContainsTablePreview(e) ==
  \/ e = TablePreview
  \/ /\ "children" \in DOMAIN e
     /\ \E i \in 1..Len(e.children) : e.children[i] = TablePreview

\* C11: for every ChartForm and TableSummary, specChart (of components.tsx
\* and of spec.ts) returns without raising, and what it returns is a
\* non-null element that contains the table preview.
C11_AlwaysRenderable ==
  /\ Called =>
       /\ chart.kind = "return"
       /\ chart.value # JSNull
       /\ ContainsTablePreview(chart.value)
  /\ chartSpec # NotCalled =>
       /\ chartSpec.kind = "return"
       /\ chartSpec.value # JSNull
       /\ ContainsTablePreview(chartSpec.value)

\* the directives of a plot before its last one
Baseline(p) == SubSeq(p.directives, 1, Len(p.directives) - 1)

\* the y-axis label the form asks for
ExpectedLabel == IF formValues.y = JSString(COUNT_FIELD) THEN JSString(COUNT_FIELD_LABEL) ELSE formValues.y

----------------------------------------------------------------------------
(* Properties of getSimplifiedDataType, continued *)

\* C17: classifying a type string outside the enumeration is silent:
\* getSimplifiedDataType returns unknown and no log entry of any level is
\* written.
C17_UnknownTypeSilent ==
  (simplified # NotCalled /\ dataTypeArg \notin DataType) =>
    /\ simplified.kind = "return"
    /\ simplified.value = "unknown"
    /\ logs = <<>>

----------------------------------------------------------------------------
(* Properties of queryTable, continued *)

\* the names of the description rows, in the order returned
DescribedNames == [i \in 1..Len(DescribedRows) |-> DescribedRows[i].column_name]

\* C15: on success the summary's name is the given tableName, its columns
\* map has exactly one entry per described column name, iterated in the
\* order of the description rows, and each entry's sampleValues are the
\* sample result's values of that column in sample-row order.
C15_SummaryFollowsDescription ==
  Succeeded =>
    LET summary == qtPromise.value
        sample == sampleValues.value
    IN /\ summary.name = qtTableName
       /\ summary.columns.keys = DescribedNames
       /\ DOMAIN summary.columns.entries = { DescribedNames[i] : i \in 1..Len(DescribedNames) }
       /\ \A i \in 1..Len(DescribedNames) :
            summary.columns.entries[DescribedNames[i]].sampleValues =
              [j \in 1..Len(sample.rows) |-> Cell(sample.rows[j], DescribedNames[i])]

\* C15 witness: a table of two columns, the later name of ColumnNames first,
\* was summarised from a sample of two rows drawn in reverse
C15_Witness ==
  /\ Succeeded
  /\ DescribedNames = <<ColumnNames[2], ColumnNames[1]>>
  /\ sampleValues.value.rows = <<2, 1>>
  /\ qtPromise.value.columns.keys = <<ColumnNames[2], ColumnNames[1]>>

\* C18: within one call the sample query is issued only after the DESCRIBE
\* query has resolved; a successful call has issued exactly one DESCRIBE and
\* one sample query, both against the given table name; when the DESCRIBE
\* query raises, the sample query is never issued.
C18_QueriesSequential ==
  /\ Len(queries) <= 2
  /\ Len(queries) >= 1 => queries[1] = [sql |-> "DESCRIBE", table |-> qtTableName]
  /\ Len(queries) = 2 =>
       /\ describe.status = "resolved"
       /\ queries[2].sql = "SELECT * USING SAMPLE"
       /\ queries[2].table = qtTableName
  /\ Succeeded => Len(queries) = 2
  /\ describe = Rejected => Len(queries) = 1

\* C18 witness: a call succeeded after both queries
C18_Witness ==
  /\ Succeeded
  /\ Len(queries) = 2
  /\ queries[2].table = qtTableName

----------------------------------------------------------------------------
(* Properties of loadTable and queryFn *)

LoadCalled == loadCall # NotCalled

\* C12: in every fetch, whatever the kind of source, the DESCRIBE and sample
\* queries are issued only after the engine has finished loading the table
\* loadTable was asked to load.
C12_LoadBeforeQuery ==
  queries # <<>> => (LoadCalled /\ loadCall.tableName \in engineTables)

\* the suffix of a file or URL source's name
SupportedSuffixes == { <<"c", "s", "v">>, <<"p", "a", "r", "q", "u", "e", "t">>, <<"j", "s", "o", "n">> }
SuffixOf(data_) ==
  LET name == IF "file" \in DOMAIN data_ THEN data_.file.name ELSE data_.url
      pieces == split(name, ".")
  IN pieces[Len(pieces)]

\* the loader a supported suffix stands for
LoaderFor(suffix) ==
  CASE suffix = <<"c", "s", "v">> -> "csv"
    [] suffix = <<"p", "a", "r", "q", "u", "e", "t">> -> "parquet"
    [] suffix = <<"j", "s", "o", "n">> -> "json"

\* in-memory records, or a file or URL whose suffix is supported
SupportedInput(data_) == "data" \in DOMAIN data_ \/ SuffixOf(data_) \in SupportedSuffixes

\* a statement creating or replacing the table was handed to the engine
LoadRequested(name) ==
  \E i \in 1..Len(execs) : TableNamed(execs[i].table) = name /\ execs[i].replace

\* C13: for in-memory records, an uploaded file and a remote URL alike, a
\* call of loadTable with a supported input has, when it returns, had the
\* engine create or replace the table named tableName.
C13_LoadCreatesTable ==
  (LoadCalled /\ loadPc = "returned" /\ SupportedInput(loadCall.data)) =>
    LoadRequested(loadCall.tableName)

\* C14: a file or URL source is dispatched by the suffix of its name to the
\* CSV, Parquet or JSON loader; for a suffix that is none of these loadTable
\* raises, and queryTable is not invoked in that fetch.
C14_SuffixDispatch ==
  (LoadCalled /\ "data" \notin DOMAIN loadCall.data) =>
    LET suffix == SuffixOf(loadCall.data)
    IN /\ (loadPc = "returned" /\ suffix \in SupportedSuffixes) =>
            \E i \in 1..Len(execs) : execs[i].load = LoaderFor(suffix)
       /\ suffix \notin SupportedSuffixes =>
            /\ loadPc # "returned"
            /\ queries = <<>>

\* a source is active
HasNonSpace(s) == \E i \in 1..Len(s) : s[i] # " "
Active(source) ==
  CASE source = "remote" -> HasNonSpace(remoteUrl)
    [] source = "manual" -> displayExpandedManualInput /\ HasNonSpace(manualInput)
    [] source = "file" -> uploadedFile # JSNull
    [] source = "dataset" -> datasetSelected # JSNull

Priority == <<"remote", "manual", "file", "dataset">>

\* the first active source in the order of priority
FirstActive ==
  IF \E i \in 1..Len(Priority) : Active(Priority[i])
  THEN Priority[CHOOSE i \in 1..Len(Priority) :
                  Active(Priority[i]) /\ \A j \in 1..(i - 1) : ~Active(Priority[j])]
  ELSE "none"

\* the table name a source gives
NameFrom(source) ==
  CASE source = "remote" -> formatTableName(remoteUrl)
    [] source = "manual" -> <<"m", "a", "n", "u", "a", "l", "_", "d", "a", "t", "a">>
    [] source = "file" -> formatTableName(uploadedFile.name)
    [] source = "dataset" -> formatTableName(datasetSelected.val)

\* the data argument is the one a source gives
DataFrom(source, data_) ==
  CASE source = "remote" -> data_ = [url |-> remoteUrl]
    [] source = "manual" -> "data" \in DOMAIN data_
    [] source = "file" -> data_ = [file |-> uploadedFile]
    [] source = "dataset" -> data_ = [url |-> getDatasetUrl(datasetSelected.val)]

\* C20: in every UI state the table name and the loader branch come from the
\* same source, the first active one in the order remote URL, manual input,
\* uploaded file, bundled dataset; when no source is active the table name is
\* null and neither loadTable nor queryTable is invoked.
C20_SourcePriority ==
  /\ FirstActive = "none" =>
       /\ ChartBuilder_tableName = JSNull
       /\ ~LoadCalled
       /\ queries = <<>>
  /\ FirstActive # "none" =>
       /\ ChartBuilder_tableName = JSString(NameFrom(FirstActive))
       /\ LoadCalled =>
            /\ loadCall.tableName = NameFrom(FirstActive)
            /\ DataFrom(FirstActive, loadCall.data)
       /\ \A i \in 1..Len(queries) : queries[i].table = NameFrom(FirstActive)

\* C20 witness: the manual input, a file and a dataset are all active, and
\* the records of the manual input were loaded and queried as manual_data
C20_Witness ==
  /\ ~Active("remote")
  /\ Active("manual")
  /\ Active("file")
  /\ Active("dataset")
  /\ LoadCalled
  /\ "data" \in DOMAIN loadCall.data
  /\ Len(queries) >= 1
  /\ queries[1].table = <<"m", "a", "n", "u", "a", "l", "_", "d", "a", "t", "a">>

----------------------------------------------------------------------------
(* Properties of the Chart component *)

\* the children of the chart container
ContainerChildren ==
  IF chartContainerRef = JSNull THEN <<>> ELSE chartContainerRef.children

\* C19: after any sequence of changes to tableName and the form values the
\* chart container holds at most one chart element, and every element that
\* was mounted for an earlier (tableName, form) pair is out of the container
\* once the effect for the next pair has run, also when that pair yields no
\* chart (null result, raised error, x or y unset).
C19_AtMostOneChartMounted ==
  /\ Len(ContainerChildren) <= 1
  /\ \A i \in 1..Len(ContainerChildren) :
       /\ ContainerChildren[i].id = renders
       /\ ContainerChildren[i].props = <<tableName, formValues>>
  /\ \A i \in 1..Len(mounted) :
       mounted[i].id < renders =>
         \A j \in 1..Len(ContainerChildren) : ContainerChildren[j] # mounted[i]

\* C19 witness: an element was mounted for one pair, and after the change to
\* a pair with x and y set that yields no chart the kept container is empty
C19_Witness ==
  /\ Len(mounted) = 1
  /\ mounted[1].id < renders
  /\ chartContainerRef # JSNull
  /\ chartContainerRef.children = <<>>
  /\ isXAndYDefined(formValues)


----------------------------------------------------------------------------
(* Properties of the data source controls, the form and the schema cache *)

\* the column names of a summary, in its column order
SummaryColumnNames(summary) == summary.columns.keys

\* C21: after a schema has been fetched successfully the X selector offers
\* exactly the column names of the fetched summary, in its column order, and
\* the Y selector offers the count sentinel followed by those column names.
C21_SelectorsOfferColumns ==
  (fetchPc = "done" /\ fetchResult.state = "fulfilled" /\ truthy(fetchResult.value)) =>
     /\ xItems(fetchResult.value) = SummaryColumnNames(fetchResult.value)
     /\ yItems(fetchResult.value) = <<COUNT_FIELD>> \o SummaryColumnNames(fetchResult.value)

\* how many of the four data sources are active
ActiveSources ==
  { s \in {"dataset", "file", "manual", "remote"} :
      CASE s = "dataset" -> truthy(datasetSelected)
        [] s = "file" -> truthy(uploadedFile)
        [] s = "manual" -> displayExpandedManualInput
        [] s = "remote" -> hasRemoteUrl }

\* C22: in every UI state reached from the initial state through the controls
\* visible at each step, at most one of bundled dataset selected, file
\* uploaded, manual-input panel expanded and non-blank remote URL holds.
C22_AtMostOneSourceActive == Cardinality(ActiveSources) <= 1

\* C22 witness: a file is the active source after the schema of a URL source
\* was fetched, so another source was active before it
C22_Witness ==
  /\ ActiveSources = {"file"}
  /\ \E k \in DOMAIN queryCache :
        /\ "source" \in DOMAIN queryCache[k]
        /\ "url" \in DOMAIN queryCache[k].source

\* the source the page is on: what queryFn would hand to loadTable now
CurrentSource == queryFn_data(queryFn_branch).value

\* C23: after any sequence of selecting, clearing, uploading and entering
\* sources, the summary shown for the current source was produced by a load
\* of that source, never served from an entry made for another source.
C23_SummaryOfCurrentSource ==
  formRendered => queryCache[queryKey].source = CurrentSource

\* what loadTable asks the engine to load for a source: the origin named by
\* its statements, none for a source it hands no statement for
LoadedFrom(source, name) ==
  LET stmts == loadTable_enter(source, name).execs
  IN { stmts[i].from : i \in 1..Len(stmts) }

\* C24: under any interleaving of two fetches in flight at the same time, the
\* summary stored for each fetch's key describes the table loaded from that
\* fetch's own source, even when both sources format to the same table name
\* (stated for the fetches of a URL whose own load the engine had carried out
\* when the table was queried).
C24_SummaryOfOwnSource ==
  \A k \in DOMAIN queryCache :
     ( /\ "content" \in DOMAIN queryCache[k]
       /\ "url" \in DOMAIN queryCache[k].source
       /\ queryCache[k].loaded ) =>
        queryCache[k].content \in LoadedFrom(queryCache[k].source, k[1].val)

\* C25: every user action that changes which table is selected (selecting or
\* clearing a dataset, uploading or clearing a file, editing the remote URL,
\* entering or clearing manual input) resets the chart form to its defaults.
C25_TableChangeResetsForm ==
  [][ChartBuilder_tableName' # ChartBuilder_tableName => formValues' = defaultChartForm]_vars
====
